---- MODULE Spec2Model ----
(***************************************************************************)
(* A state-machine model of the oxeye parser engine: rule compilation,     *)
(* the match primitives, and the parse loop of oxeye/parser.py, together   *)
(* with the token/lexical layer of oxeye/token.py.                         *)
(*                                                                         *)
(* Python values are modelled as follows.  A character input is a          *)
(* sequence over Alphabet; a Python string (a literal, a captured value)   *)
(* is a sequence of characters, so the head element tokens[0] of a         *)
(* character input is the one-character string <<tokens[1]>>.  None is     *)
(* the string "None".  An exception is a record with a "type" field; an    *)
(* optional value is a sequence of length 0 or 1.                          *)
(***************************************************************************)
EXTENDS Integers, Sequences, FiniteSets, TLC

\* ------------------------------------------------------------------ bounds
MaxLen == 2
MaxSteps == 6
MaxCalls == 2

\* the characters a lexer is fed, and those a plain parser is fed
Alphabet(cls) == IF cls = "TokenLexer" THEN {"a", " ", "\n"} ELSE {"a", "b", " "}
Inputs(cls) == UNION {[1..n -> Alphabet(cls)] : n \in 0..MaxLen}
Threads == {"main", "second"}
MainThread == "main"

None == "None"
NoExc == <<>>

\* sequence[n:], the slice of a Python sequence from index n (0-based) on
Slice(s, n) == SubSeq(s, n + 1, Len(s))
\* sequence[:n], the first n elements (fewer when the sequence is shorter)
Prefix(s, n) == SubSeq(s, 1, IF n < Len(s) THEN n ELSE Len(s))

\* ------------------------------------------------- match and rule outcomes
\* the match tuples (success, advance, args, kwargs); no match function
\* modelled here passes kwargs, which stay the empty dict
failed_match ==
    [exc |-> NoExc, success |-> FALSE, advance |-> 0, args |-> <<>>, kwargs |-> <<>>]
passed_match(advance, args) ==
    [exc |-> NoExc, success |-> TRUE, advance |-> advance, args |-> args, kwargs |-> <<>>]
failed_rule == [success |-> FALSE, advance |-> 0, next_state |-> None]
passed_rule(advance, next_state) == [success |-> TRUE, advance |-> advance, next_state |-> next_state]

\* an exception other than ParseError: its class and its message
Exc(type, message) == [type |-> type, message |-> message]
IndexError == Exc("IndexError", "index out of range")
KeyError(key) == Exc("KeyError", key)
\* what a call with a keyword the signature does not have raises
TypeError(kw) == Exc("TypeError", "unexpected keyword argument")
\* the classes an `except Exception` clause catches; SystemExit derives from
\* BaseException only
IsException(e) == e.type # "SystemExit"
\* a match function that raised instead of returning a match tuple
raised_match(e) ==
    [exc |-> <<e>>, success |-> FALSE, advance |-> 0, args |-> <<>>, kwargs |-> <<>>]

\* ParseError(position, state, text, message, nested_exception)
ParseError(position, st, text, message, nested) ==
    [type |-> "ParseError", position |-> position, state |-> st, text |-> text,
     message |-> message, nested_exception |-> nested]

\* a Python string held where any object may be held
PyStr(v) == [str |-> v]

\* CompileError(subject, state): __init__ stores its two positional
\* arguments as subject and state and does not call Exception.__init__, so
\* (Python 2, which the module is written for) the exception's args stay
\* empty and the two attributes are all it carries.
CompileError(subject, st) ==
    [type |-> "CompileError", subject |-> subject, state |-> st]

\* ------------------------------------------------------ match specifications
\* a string literal, a callable match function, a bare integer
Str(v) == [type |-> "str", value |-> v]
Fn(name, arg) == [type |-> "function", fn |-> name, arg |-> arg]
Int12345 == [type |-> "int", value |-> <<"1", "2", "3", "4", "5">>]

match_any == Fn("match_any", <<>>)
match_peek == Fn("match_peek", <<>>)
match_all == Fn("match_all", <<>>)
match_str(tok) == Fn("match_str", tok)
match_set(value_set) == Fn("match_set", value_set)

InSeq(x, s) == \E i \in 1..Len(s) : s[i] = x

\* a string given by its characters, as the one element it is when it is
\* held in a list or compared with an element
RECURSIVE Whole(_)
Whole(tok) == IF tok = << >> THEN "" ELSE tok[1] \o Whole(Tail(tok))

\* a string matcher that reports two elements consumed
match_str_impl_consumes_two(tok, tokens) ==
    IF Len(tokens) = 0 THEN raised_match(IndexError)
    ELSE IF tokens[1] = Whole(tok) THEN passed_match(2, <<tok>>)
    ELSE failed_match

\* the closure _compile_match_str returns: tokens[0] == tok, the head
\* element compared with the whole string
match_str_impl(tok, tokens) ==
    IF Len(tokens) = 0 THEN raised_match(IndexError)
    ELSE IF tokens[1] = Whole(tok) THEN passed_match(1, <<tok>>)
    ELSE failed_match

\* match_rex(expr) applied to a sequence that is a list: rex.match(tokens)
\* takes a string or buffer only, so re raises TypeError
match_rex_on_list(expr, tokens) ==
    raised_match(Exc("TypeError", "expected string or buffer"))

\* the match functions of oxeye/parser.py applied to the remaining input
match_call(m, tokens) ==
    CASE m.fn = "match_any" ->
           IF Len(tokens) = 0 THEN raised_match(IndexError)
           ELSE passed_match(1, <<(<<tokens[1]>>)>>)
      [] m.fn = "match_peek" ->
           IF Len(tokens) = 0 THEN raised_match(IndexError)
           ELSE passed_match(0, <<(<<tokens[1]>>)>>)
      [] m.fn = "match_all" -> passed_match(Len(tokens), <<tokens>>)
      [] m.fn = "match_str" ->
           IF Prefix(tokens, Len(m.arg)) = m.arg
           THEN passed_match(Len(m.arg), <<m.arg>>)
           ELSE failed_match
      [] m.fn = "match_set" ->
           IF Len(tokens) = 0 THEN raised_match(IndexError)
           ELSE IF InSeq(tokens[1], m.arg) THEN passed_match(1, <<(<<tokens[1]>>)>>)
           ELSE failed_match
      [] m.fn = "match_rex" -> match_rex_on_list(m.arg, tokens)

\* ---- Token comparison and hashing
\* isinstance(x, str) or isinstance(x, unicode)
IsStr(x) == DOMAIN x = {"str"}

\* hash of a string: distinct for the strings in use
str_hash(v) == CASE v = "foo" -> 11 [] v = "bar" -> 23 [] OTHER -> 37

\* an equality that compares every field (the token of oxeye_examples)
__eq___fieldwise(self, other) ==
    IF IsStr(other) THEN FALSE ELSE self = other

\* Token.__eq__
__eq__(self, other) ==
    IF IsStr(other) THEN self.name = other.str
    ELSE self.name = other.name

\* a hash that also takes the value in
__hash___with_value(self) == str_hash(self.name) * 41 + str_hash(self.value)

\* Token.__hash__
__hash__(self) == str_hash(self.name)

\* a == b as Python evaluates it: the left operand's __eq__, and the right
\* operand's when the left one is a string and the right one is not
PyEq(a, b) ==
    IF ~IsStr(a) THEN __eq__(a, b)
    ELSE IF IsStr(b) THEN a.str = b.str
    ELSE __eq__(b, a)
\* hash(a)
PyHash(a) == IF IsStr(a) THEN str_hash(a.str) ELSE __hash__(a)
\* {key: 'hit'}[a]: the entry is found when the hashes agree and the
\* keys are equal
PyGetItem(key, a) ==
    IF PyHash(key) = PyHash(a) /\ PyEq(key, a) THEN [exc |-> NoExc, value |-> "hit"]
    ELSE [exc |-> <<KeyError("a")>>, value |-> None]

\* the compiled match function of a token used as match specification:
\* TokenParser._compile_match_token of oxeye/token.py gives match_head(tok),
\* that of oxeye/parser.py a closure of its own
_compile_match_token(module, tok) ==
    IF module = "oxeye.token" THEN [type |-> "match_head", value |-> tok]
    ELSE [type |-> "match_token_impl", tok |-> tok]

\* match_head(value) of oxeye/match.py and the closure of
\* TokenParser._compile_match_token of oxeye/parser.py, applied to tokens
token_match_call(m, tokens) ==
    CASE m.type = "match_head" ->
           IF Len(tokens) = 0 THEN failed_match
           ELSE IF PyEq(tokens[1], m.value) THEN passed_match(1, <<tokens[1]>>)
           ELSE failed_match
      [] m.type = "match_token_impl" ->
           IF Len(tokens) = 0 THEN raised_match(IndexError)
           ELSE IF PyEq(m.tok, tokens[1]) THEN passed_match(1, <<PyStr(tokens[1].value)>>)
           ELSE failed_match

\* a compiled match function applied to the remaining input
match_fn_call(m, tokens) ==
    IF m.type = "match_str_impl" THEN match_str_impl(m.tok, tokens)
    ELSE IF m.type \in {"match_head", "match_token_impl"} THEN token_match_call(m, tokens)
    ELSE match_call(m, tokens)

\* ------------------------------------------------------------- predicates
\* nop does nothing; throw_fn raises Exception('test'); err(msg) returns a
\* predicate raising Exception(msg); exit_fn is an action calling sys.exit();
\* record keeps its argument (a test's result_pred); _whitespace, _newline
\* and _token are the TokenLexer's.
Predicates ==
    {"nop", "throw_fn", "err", "exit_fn", "record", "_whitespace", "_newline", "_token"}

pred_call(p) ==
    CASE p = "throw_fn" -> <<Exc("Exception", "test")>>
      [] p = "err" -> <<Exc("Exception", "failure")>>
      [] p = "exit_fn" -> <<Exc("SystemExit", "")>>
      [] OTHER -> NoExc

\* ------------------------------------------------------- rule descriptions
Tuple(match_tok, predicate_fn, next_state) ==
    [shape |-> "tuple", match |-> match_tok, pred |-> predicate_fn, next |-> next_state]
Dict(table) == [shape |-> "dict", table |-> table]
rule_end == [shape |-> "function", fn |-> "rule_end", state |-> None]
rule_next(st) == [shape |-> "function", fn |-> "rule_next", state |-> st]
rule_fail(message) == [shape |-> "function", fn |-> "rule_fail", state |-> None, message |-> message]
\* rule_branch(tok, pass_state, fail_state) defines its closure impl and ends
\* without returning it: the call evaluates to None (kept here with the
\* arguments of the call that made it)
rule_branch(tok, pass_state, fail_state) ==
    [shape |-> "None", tok |-> tok, pass_state |-> pass_state, fail_state |-> fail_state]
BadObject == [shape |-> "object"]

\* what calling a compiled rule gives: the exception it raised (if any),
\* the rule tuple it returned, and the predicate invocations it made
RuleCall(exc, result, invoked) == [exc |-> exc, result |-> result, invoked |-> invoked]

\* a closure that calls the predicate whether or not the match succeeded
tuple_impl_always_invokes(rule, tokens) ==
    LET m == match_fn_call(rule.match_fn, tokens)
        inv == <<[pred |-> rule.predicate_fn, args |-> m.args, kwargs |-> m.kwargs]>>
    IN  IF m.exc # NoExc THEN RuleCall(m.exc, failed_rule, <<>>)
        ELSE IF pred_call(rule.predicate_fn) # NoExc
             THEN RuleCall(pred_call(rule.predicate_fn), failed_rule, inv)
             ELSE IF m.success
                  THEN RuleCall(NoExc, passed_rule(m.advance, rule.next_state), inv)
                  ELSE RuleCall(NoExc, failed_rule, inv)

\* the closure _compile_tuple_rule returns
tuple_impl(rule, tokens) ==
    LET m == match_fn_call(rule.match_fn, tokens)
        inv == <<[pred |-> rule.predicate_fn, args |-> m.args, kwargs |-> m.kwargs]>>
    IN  IF m.exc # NoExc THEN RuleCall(m.exc, failed_rule, <<>>)
        ELSE IF m.success
             THEN IF pred_call(rule.predicate_fn) # NoExc
                  THEN RuleCall(pred_call(rule.predicate_fn), failed_rule, inv)
                  ELSE RuleCall(NoExc, passed_rule(m.advance, rule.next_state), inv)
             ELSE RuleCall(NoExc, failed_rule, <<>>)

\* the closure _compile_dict_rule returns
dict_impl(rule, tokens) ==
    IF Len(tokens) = 0 THEN RuleCall(<<IndexError>>, failed_rule, <<>>)
    ELSE LET tok == tokens[1] IN
         IF tok \in DOMAIN rule.rule
         THEN LET predicate_fn == rule.rule[tok][1]
                  next_state == rule.rule[tok][2]
                  inv == <<[pred |-> predicate_fn, args |-> <<(<<tok>>)>>, kwargs |-> << >>]>>
              IN  IF pred_call(predicate_fn) # NoExc
                  THEN RuleCall(pred_call(predicate_fn), failed_rule, inv)
                  ELSE RuleCall(NoExc, passed_rule(1, next_state), inv)
         ELSE RuleCall(NoExc, failed_rule, <<>>)

\* the rule functions of oxeye/rule.py
rule_fn_call(rule, tokens) ==
    CASE rule.fn = "rule_end" ->
           IF Len(tokens) = 0 THEN RuleCall(NoExc, passed_rule(0, None), <<>>)
           ELSE RuleCall(NoExc, failed_rule, <<>>)
      [] rule.fn = "rule_next" -> RuleCall(NoExc, passed_rule(0, rule.state), <<>>)
      \* raise ParseException(message): the module defines and imports no such
      \* name, so evaluating it raises NameError
      [] rule.fn = "rule_fail" ->
           RuleCall(<<Exc("NameError", "name 'ParseException' is not defined")>>,
                    failed_rule, <<>>)

\* test_fn(tokens[position:]) for a compiled rule
test_fn(rule, tokens) ==
    CASE rule.shape = "tuple_impl" -> tuple_impl(rule, tokens)
      [] rule.shape = "dict_impl" -> dict_impl(rule, tokens)
      [] rule.shape = "function" -> rule_fn_call(rule, tokens)

\* ---------------------------------------------------------------- compiler
\* a compilation step either gives a value or raises a CompileError
Compiled(v) == [exc |-> NoExc, value |-> v]
Raised(e) == [exc |-> <<e>>, value |-> None]

\* the match functions of the library and the closures the compiler makes
\* are callables
CallableMatch(tok) == tok.type \in {"function", "match_str_impl"}
\* rule functions and the closures the compiler makes are callables
CallableRule(rule) == rule.shape \in {"function", "tuple_impl", "dict_impl"}

\* a dispatch that stores match_any in place of the callable it is given
_compile_match_replaces(tok) ==
    CASE CallableMatch(tok) -> Compiled(match_any)
      [] tok.type = "str" -> Compiled([type |-> "match_str_impl", tok |-> tok.value])
      [] OTHER -> Raised(CompileError(PyStr("Match expression is not callable"), tok))

\* a dispatch that compiles a string to match_str, the matcher of a prefix
\* of several elements
_compile_match_prefix(tok) ==
    CASE CallableMatch(tok) -> Compiled(tok)
      [] tok.type = "str" -> Compiled(match_str(tok.value))
      [] OTHER -> Raised(CompileError(PyStr("Match expression is not callable"), tok))

_compile_match(tok) ==
    CASE CallableMatch(tok) -> Compiled(tok)
      [] tok.type = "str" -> Compiled([type |-> "match_str_impl", tok |-> tok.value])
      [] OTHER -> Raised(CompileError(PyStr("Match expression is not callable"), tok))

_compile_tuple_rule(rule) ==
    LET match_fn == _compile_match(rule.match) IN
    IF match_fn.exc # NoExc THEN match_fn
    ELSE Compiled([shape |-> "tuple_impl", match_fn |-> match_fn.value,
                   predicate_fn |-> rule.pred, next_state |-> rule.next])

_compile_rule(rule) ==
    CASE CallableRule(rule) -> Compiled(rule)
      [] rule.shape = "tuple" -> _compile_tuple_rule(rule)
      [] rule.shape = "dict" -> Compiled([shape |-> "dict_impl", rule |-> rule.table])
      [] OTHER -> Raised(CompileError(PyStr("No registered method to compile rule"), rule))

\* map(self._compile_rule, tests): the compiled list, or the error of the
\* first rule that does not compile
compile_tests(tests) ==
    LET c == [i \in 1..Len(tests) |-> _compile_rule(tests[i])]
        bad == {i \in 1..Len(tests) : c[i].exc # NoExc}
    IN  IF bad = {} THEN Compiled([i \in 1..Len(tests) |-> c[i].value])
        ELSE c[CHOOSE i \in bad : \A j \in bad : i <= j]

\* ------------------------------------------------------------------ grammars
\* rule lists for the state 'goal'
GoalRules ==
    { <<Tuple(Str(<<"a">>), "record", "goal"), Tuple(match_str(<<"a", "b">>), "record", "alt")>>,
      <<Tuple(match_str(<<"a", "b">>), "record", "alt"), Tuple(match_any, "record", "goal")>>,
      <<Tuple(Str(<<"a">>), "throw_fn", "goal"), Tuple(Str(<<"b">>), "err", "goal"),
        Tuple(Str(<<" ">>), "exit_fn", "goal")>>,
      <<Tuple(match_peek, "record", "alt")>>,
      <<Tuple(match_peek, "nop", "goal")>>,
      <<Dict("a" :> <<"record", "alt">> @@ "b" :> <<"nop", "goal">>),
        Tuple(match_all, "record", "nowhere")>>,
      <<Tuple(match_set(<<"a", " ">>), "record", "goal"), rule_end>>,
      <<rule_next("alt")>>,
      <<Tuple(Str(<<"a">>), "nop", "goal"), Tuple(Int12345, "nop", "goal")>>,
      <<BadObject>> }

\* rule lists for the state 'alt'
AltRules ==
    { <<Tuple(match_any, "record", "goal")>>,
      <<Tuple(Str(<<"b">>), "record", "alt"), rule_end>>,
      <<Tuple(Int12345, "nop", "alt")>>,
      <<>> }

\* the rule list of a lexer: tokens, newlines and whitespace
LexerRules ==
    <<Tuple(Str(<<"a">>), "_token", "goal"),
      Tuple(Str(<<"b">>), "nop", "goal"),
      Tuple(Str(<<"\n">>), "_newline", "goal"),
      Tuple(Str(<<" ">>), "_whitespace", "goal")>>

Grammars == {("goal" :> g) @@ ("alt" :> a) : g \in GoalRules, a \in AltRules}

\* an argument the caller leaves out, and the value the parameter then has
Omitted == "omitted"
Arg(v, default) == IF v = Omitted THEN default ELSE v

\* a grammar whose rule names an end state it does not declare
EndRules == <<Tuple(match_str(<<"a", "b">>), "nop", "end")>>

\* what a constructor is called with: the class, the spec, the start state
\* and the names of the other keyword arguments passed
Configs ==
    {[cls |-> "Parser", spec |-> g, start_state |-> s, kwargs |-> {}] :
        g \in Grammars, s \in {Omitted, "alt"}}
    \cup {[cls |-> "TokenLexer", spec |-> ("goal" :> LexerRules), start_state |-> Omitted,
           kwargs |-> {}]}
    \cup {[cls |-> "Parser", spec |-> ("goal" :> EndRules), start_state |-> Omitted,
           kwargs |-> kw] : kw \in {{}, {"end_state"}}}

\* -------------------------------------------------------------------- state
VARIABLES
    given,        \* the arguments of the constructor call
    phase,        \* "new", "ready" (constructed) or "failed" (constructor raised)
    cerr,         \* the CompileError the constructor raised
    spec,         \* self.spec, the compiled rule table
    start_state,  \* self.start_state
    state,        \* self.state
    _tokens,      \* TokenLexer._tokens
    _line,        \* TokenLexer._line
    _column,      \* TokenLexer._column
    ncalls,       \* parse calls made so far
    op,           \* the operation last called on the engine
    called,       \* a function called directly: the function and its argument
    result,       \* what that call gave
    pc,           \* per call: where the call is in parse
    tokens,       \* per call: the tokens argument
    position,     \* per call: the local position
    tests,        \* per call: the rule list the for loop iterates
    ruleidx,      \* per call: the for loop's index into tests (from 1)
    ret,          \* per call: how the call ended
    entry,        \* per call: the state and position the call began with
    trace,        \* per call: the rule applications that matched or raised
    steps         \* per call: rule attempts made

engine == <<given, phase, cerr, spec, start_state, state, _tokens, _line, _column>>
locals == <<pc, tokens, position, tests, ruleidx, ret, entry, trace, steps>>
direct == <<called, result>>
vars == <<engine, ncalls, op, direct, locals>>

\* no call: nothing asked for
NoEntry ==
    [state |-> None, position |-> 0, tokens |-> << >>, kwargs |-> {}, after |-> "none",
     state_override |-> None, during |-> {}]
Running == [kind |-> "none", value |-> None, exc |-> NoExc]
Return(v) == [kind |-> "return", value |-> v, exc |-> NoExc]
Raise(e) == [kind |-> "raise", value |-> None, exc |-> <<e>>]

Unconstructed ==
    /\ phase = "new"
    /\ cerr = NoExc
    /\ spec = << >>
    /\ start_state = None
    /\ state = None
    /\ _tokens = << >>
    /\ _line = 0
    /\ _column = 0
    /\ ncalls = 0
    /\ op = "none"
    /\ pc = [t \in Threads |-> "idle"]
    /\ tokens = [t \in Threads |-> << >>]
    /\ position = [t \in Threads |-> 0]
    /\ tests = [t \in Threads |-> << >>]
    /\ ruleidx = [t \in Threads |-> 0]
    /\ ret = [t \in Threads |-> Running]
    /\ entry = [t \in Threads |-> NoEntry]
    /\ trace = [t \in Threads |-> << >>]
    /\ steps = [t \in Threads |-> 0]

Init ==
    /\ given \in Configs
    /\ called = << >>
    /\ result = << >>
    /\ Unconstructed

\* -------------------------------------------------------------- token layer
\* Token(name, value, line, column); value defaults to the name
Token(name, value, line, column) ==
    [name |-> name, value |-> IF value = None THEN name ELSE value,
     line |-> line, column |-> column]

\* a lexer whose whitespace action leaves the column alone
RECURSIVE lexer_after_ws_ignored(_, _)
lexer_after_ws_ignored(lex, invoked) ==
    IF invoked = << >> THEN lex
    ELSE LET p == Head(invoked).pred
             value == Head(invoked).args[1]
             nxt == CASE p = "_token" ->
                           [_tokens |-> Append(lex._tokens, Token(value, None, lex._line, lex._column)),
                            _line |-> lex._line,
                            _column |-> lex._column + Len(value)]
                      [] p = "_newline" ->
                           [lex EXCEPT !._column = 1, !._line = lex._line + 1]
                      [] OTHER -> lex
         IN  lexer_after_ws_ignored(nxt, Tail(invoked))

\* the TokenLexer's fields after the predicate invocations `invoked`
\* (_token, _whitespace, _newline; any other predicate leaves them alone)
RECURSIVE lexer_after(_, _)
lexer_after(lex, invoked) ==
    IF invoked = << >> THEN lex
    ELSE LET p == Head(invoked).pred
             value == Head(invoked).args[1]
             nxt == CASE p = "_token" ->
                           [_tokens |-> Append(lex._tokens, Token(value, None, lex._line, lex._column)),
                            _line |-> lex._line,
                            _column |-> lex._column + Len(value)]
                      [] p = "_whitespace" ->
                           [lex EXCEPT !._column = lex._column + Len(value)]
                      [] p = "_newline" ->
                           [lex EXCEPT !._column = 1, !._line = lex._line + 1]
                      [] OTHER -> lex
         IN  lexer_after(nxt, Tail(invoked))

\* ------------------------------------------------------------- construction
Orders(S) == {o \in [1..Cardinality(S) -> S] : \A i, j \in DOMAIN o : o[i] = o[j] => i = j}

\* a reset that leaves the current state as it is
reset_to_keep_state(cls, start) ==
    /\ state' = state
    /\ IF cls = "TokenLexer"
       THEN /\ _tokens' = << >>
            /\ _line' = 1
            /\ _column' = 1
       ELSE UNCHANGED <<_tokens, _line, _column>>

\* the reset of the base class, without what TokenLexer.reset adds
reset_to_base(cls, start) ==
    /\ state' = start
    /\ UNCHANGED <<_tokens, _line, _column>>

\* reset(): back to the start state; a TokenLexer also clears its tokens
\* and its line and column counters
reset_to(cls, start) ==
    /\ state' = start
    /\ IF cls = "TokenLexer"
       THEN /\ _tokens' = << >>
            /\ _line' = 1
            /\ _column' = 1
       ELSE UNCHANGED <<_tokens, _line, _column>>

\* except CompileError as e: e.state = state; raise
compile_error_in(e, st) == [e EXCEPT !.state = PyStr(st)]

\* Parser.__init__(spec, start_state='goal'): a call with any other keyword
\* raises TypeError before the body runs.  The body compiles every state's
\* rule list in the order the dict yields the states, then resets.  A
\* CompileError gets the state being compiled as its state attribute and
\* leaves the constructor.
__init__ ==
    /\ phase = "new"
    /\ \E order \in Orders(DOMAIN given.spec) :
         LET c == [i \in DOMAIN order |-> compile_tests(given.spec[order[i]])]
             bad == {i \in DOMAIN order : c[i].exc # NoExc}
             first == CHOOSE i \in bad : \A j \in bad : i <= j
         IN  IF given.kwargs # {}
             THEN /\ phase' = "failed"
                  /\ cerr' = <<TypeError(given.kwargs)>>
                  /\ UNCHANGED <<spec, start_state, state, _tokens, _line, _column>>
             ELSE
             IF bad = {}
             THEN /\ phase' = "ready"
                  /\ spec' = [s \in DOMAIN given.spec |-> compile_tests(given.spec[s]).value]
                  /\ start_state' = Arg(given.start_state, "goal")
                  /\ reset_to(given.cls, Arg(given.start_state, "goal"))
                  /\ cerr' = cerr
             ELSE /\ phase' = "failed"
                  /\ cerr' = <<compile_error_in(c[first].exc[1], order[first])>>
                  /\ UNCHANGED <<spec, start_state, state, _tokens, _line, _column>>
    /\ op' = "__init__"
    /\ UNCHANGED <<direct, given, ncalls, locals>>

\* no parse call is in progress
Quiet == \A t \in Threads : pc[t] = "idle"

reset ==
    /\ phase = "ready"
    /\ Quiet
    /\ reset_to(given.cls, start_state)
    /\ op' = "reset"
    /\ UNCHANGED <<direct, given, phase, cerr, spec, start_state, ncalls, locals>>

\* ------------------------------------------------------------- Parser.parse
unicode(e) == e.message

\* _error losing the exception that caused the error
_error_drop_nested(pos, st, text, msg, nested) == ParseError(pos, st, text, msg, NoExc)

\* _error reporting the start of the input instead of the failing position
_error_at_start(pos, st, text, msg, nested) == ParseError(0, st, text, msg, nested)

\* Parser._error(position, state, tokens, msg, nested): the error it raises
_error(pos, st, text, msg, nested) == ParseError(pos, st, text, msg, nested)

\* a parse that goes back to the start state when it is given no state
parse_begin_at_start(st, state_override) ==
    IF state_override # None THEN state_override ELSE start_state

\* parse(tokens, state_override): the state to begin in and position = 0
parse_begin(st, state_override) == IF state_override # None THEN state_override ELSE st

\* the keyword arguments a caller may pass besides tokens and state_override
KwArgs == {{}, {"exhaustive"}, {"position"}}

\* a parse that begins in the start state whatever the call before it left
parse_from_start(t, toks, state_override, kwargs) ==
    /\ phase = "ready"
    /\ pc[t] = "idle"
    /\ ncalls < MaxCalls
    /\ ncalls' = ncalls + 1
    /\ op' = "parse"
    /\ entry' = [entry EXCEPT ![t] =
                    [state |-> parse_begin(start_state, state_override), position |-> 0,
                     tokens |-> toks, kwargs |-> kwargs, after |-> op,
                     state_override |-> state_override,
                     during |-> {u \in Threads : pc[u] \in {"while", "for"}}]]
    /\ IF kwargs # {}
       THEN /\ ret' = [ret EXCEPT ![t] = Raise(TypeError(kwargs))]
            /\ pc' = [pc EXCEPT ![t] = "done"]
            /\ UNCHANGED <<state, tokens, position, tests, ruleidx, trace, steps>>
       ELSE /\ state' = parse_begin(start_state, state_override)
            /\ pc' = [pc EXCEPT ![t] = "while"]
            /\ tokens' = [tokens EXCEPT ![t] = toks]
            /\ position' = [position EXCEPT ![t] = 0]
            /\ tests' = [tests EXCEPT ![t] = << >>]
            /\ ruleidx' = [ruleidx EXCEPT ![t] = 0]
            /\ ret' = [ret EXCEPT ![t] = Running]
            /\ trace' = [trace EXCEPT ![t] = << >>]
            /\ steps' = [steps EXCEPT ![t] = 0]
    /\ UNCHANGED <<direct, given, phase, cerr, spec, start_state, _tokens, _line, _column>>

\* def parse(self, tokens, state_override=None): a call with any other
\* keyword raises TypeError before the body runs
parse(t, toks, state_override, kwargs) ==
    /\ phase = "ready"
    /\ pc[t] = "idle"
    /\ ncalls < MaxCalls
    /\ ncalls' = ncalls + 1
    /\ op' = "parse"
    /\ entry' = [entry EXCEPT ![t] =
                    [state |-> parse_begin(state, state_override), position |-> 0,
                     tokens |-> toks, kwargs |-> kwargs, after |-> op,
                     state_override |-> state_override,
                     during |-> {u \in Threads : pc[u] \in {"while", "for"}}]]
    /\ IF kwargs # {}
       THEN /\ ret' = [ret EXCEPT ![t] = Raise(TypeError(kwargs))]
            /\ pc' = [pc EXCEPT ![t] = "done"]
            /\ UNCHANGED <<state, tokens, position, tests, ruleidx, trace, steps>>
       ELSE /\ state' = parse_begin(state, state_override)
            /\ pc' = [pc EXCEPT ![t] = "while"]
            /\ tokens' = [tokens EXCEPT ![t] = toks]
            /\ position' = [position EXCEPT ![t] = 0]
            /\ tests' = [tests EXCEPT ![t] = << >>]
            /\ ruleidx' = [ruleidx EXCEPT ![t] = 0]
            /\ ret' = [ret EXCEPT ![t] = Running]
            /\ trace' = [trace EXCEPT ![t] = << >>]
            /\ steps' = [steps EXCEPT ![t] = 0]
    /\ UNCHANGED <<direct, given, phase, cerr, spec, start_state, _tokens, _line, _column>>

\* while position < len(tokens): ... for test_fn in self.spec[self.state]
parse_while(t) ==
    /\ pc[t] = "while"
    /\ IF position[t] < Len(tokens[t])
       THEN IF state \in DOMAIN spec
            THEN /\ tests' = [tests EXCEPT ![t] = spec[state]]
                 /\ ruleidx' = [ruleidx EXCEPT ![t] = 1]
                 /\ pc' = [pc EXCEPT ![t] = "for"]
                 /\ ret' = ret
            ELSE /\ ret' = [ret EXCEPT ![t] =
                       Raise(_error(position[t], state, tokens[t],
                                    unicode(KeyError(state)), <<KeyError(state)>>))]
                 /\ pc' = [pc EXCEPT ![t] = "done"]
                 /\ UNCHANGED <<tests, ruleidx>>
       ELSE /\ ret' = [ret EXCEPT ![t] = Return(None)]
            /\ pc' = [pc EXCEPT ![t] = "done"]
            /\ UNCHANGED <<tests, ruleidx>>
    /\ UNCHANGED <<direct, engine, ncalls, op, tokens, position, entry, trace, steps>>

\* what the trace keeps of a rule call: nothing when the rule just failed,
\* otherwise where it was applied (position, state, index in the state's
\* list), the predicate invocations it made and the exception it raised
traced(r, pos, st, rule) ==
    IF r.exc = NoExc /\ ~r.result.success THEN << >>
    ELSE <<[pos |-> pos, state |-> st, rule |-> rule, invoked |-> r.invoked, exc |-> r.exc]>>

\* the loop without its break: after a match it goes on with the next rule
parse_step_no_break(pos, st, idx, r) ==
    IF r.exc # NoExc
    THEN [position |-> pos, state |-> st, ruleidx |-> idx, pc |-> "done"]
    ELSE IF r.result.success
         THEN [position |-> pos + r.result.advance, state |-> r.result.next_state,
               ruleidx |-> idx + 1, pc |-> "for"]
         ELSE [position |-> pos, state |-> st, ruleidx |-> idx + 1, pc |-> "for"]

\* a loop that steps over the element whose rule raised
parse_step_skip_on_raise(pos, st, idx, r) ==
    IF r.exc # NoExc
    THEN [position |-> pos + 1, state |-> st, ruleidx |-> idx, pc |-> "done"]
    ELSE IF r.result.success
         THEN [position |-> pos + r.result.advance, state |-> r.result.next_state,
               ruleidx |-> idx, pc |-> "while"]
         ELSE [position |-> pos, state |-> st, ruleidx |-> idx + 1, pc |-> "for"]

\* a loop that sets the cursor to the consumed count instead of adding it,
\* so that a step made earlier is lost
parse_step_assigns(pos, st, idx, r) ==
    IF r.exc # NoExc
    THEN [position |-> pos, state |-> st, ruleidx |-> idx, pc |-> "done"]
    ELSE IF r.result.success
         THEN [position |-> r.result.advance, state |-> r.result.next_state,
               ruleidx |-> idx, pc |-> "while"]
         ELSE [position |-> pos, state |-> st, ruleidx |-> idx + 1, pc |-> "for"]

\* a loop with cycle detection: a match that consumes nothing and stays in
\* the same state ends the loop
parse_step_detects_cycle(pos, st, idx, r) ==
    IF r.exc # NoExc
    THEN [position |-> pos, state |-> st, ruleidx |-> idx, pc |-> "done"]
    ELSE IF r.result.success
         THEN [position |-> pos + r.result.advance, state |-> r.result.next_state,
               ruleidx |-> idx,
               pc |-> IF r.result.advance = 0 /\ r.result.next_state = st
                      THEN "done" ELSE "while"]
         ELSE [position |-> pos, state |-> st, ruleidx |-> idx + 1, pc |-> "for"]

\* a loop that leaves the cursor where it is after a match
parse_step_stays(pos, st, idx, r) ==
    IF r.exc # NoExc
    THEN [position |-> pos, state |-> st, ruleidx |-> idx, pc |-> "done"]
    ELSE IF r.result.success
         THEN [position |-> pos, state |-> r.result.next_state,
               ruleidx |-> idx, pc |-> "while"]
         ELSE [position |-> pos, state |-> st, ruleidx |-> idx + 1, pc |-> "for"]

\* what the loop does with a rule call: when it raised, nothing is assigned
\* and the loop is left; on success advance, move to the next state and
\* break; otherwise go on with the next rule
parse_step(pos, st, idx, r) ==
    IF r.exc # NoExc
    THEN [position |-> pos, state |-> st, ruleidx |-> idx, pc |-> "done"]
    ELSE IF r.result.success
         THEN [position |-> pos + r.result.advance, state |-> r.result.next_state,
               ruleidx |-> idx, pc |-> "while"]
         ELSE [position |-> pos, state |-> st, ruleidx |-> idx + 1, pc |-> "for"]

\* success, advance, next_state = test_fn(tokens[position:]) for the next
\* rule of the list; an Exception leaves through the except clause, which
\* raises it again through _error with the exception nested; any other
\* exception leaves parse as it is
parse_rule(t) ==
    /\ pc[t] = "for"
    /\ ruleidx[t] <= Len(tests[t])
    /\ steps[t] < MaxSteps
    /\ LET r == test_fn(tests[t][ruleidx[t]], Slice(tokens[t], position[t]))
           lex == lexer_after([_tokens |-> _tokens, _line |-> _line, _column |-> _column],
                              r.invoked)
           nxt == parse_step(position[t], state, ruleidx[t], r)
       IN  /\ trace' = [trace EXCEPT ![t] = @ \o traced(r, position[t], state, ruleidx[t] - 1)]
           /\ steps' = [steps EXCEPT ![t] = @ + 1]
           /\ _tokens' = lex._tokens
           /\ _line' = lex._line
           /\ _column' = lex._column
           /\ position' = [position EXCEPT ![t] = nxt.position]
           /\ state' = nxt.state
           /\ ruleidx' = [ruleidx EXCEPT ![t] = nxt.ruleidx]
           /\ pc' = [pc EXCEPT ![t] = nxt.pc]
           /\ ret' = IF r.exc = NoExc THEN ret
                     ELSE IF IsException(r.exc[1])
                          THEN [ret EXCEPT ![t] =
                                   Raise(_error(position[t], state, tokens[t],
                                                unicode(r.exc[1]), r.exc))]
                          ELSE [ret EXCEPT ![t] = Raise(r.exc[1])]
    /\ UNCHANGED <<direct, given, phase, cerr, spec, start_state, ncalls, op, tokens, tests, entry>>

\* an else branch that also takes the cursor back to the start of the input
parse_no_match_rewind(t) ==
    /\ pc[t] = "for"
    /\ ruleidx[t] > Len(tests[t])
    /\ LET e == _error(position[t], state, tokens[t], "No match found", NoExc)
       IN  ret' = [ret EXCEPT ![t] =
                      Raise(_error(position[t], state, tokens[t], unicode(e), <<e>>))]
    /\ pc' = [pc EXCEPT ![t] = "done"]
    /\ position' = [position EXCEPT ![t] = 0]
    /\ UNCHANGED <<direct, engine, ncalls, op, tokens, tests, ruleidx, entry, trace, steps>>

\* the for loop's else: no rule matched.  _error raises ParseError('No match
\* found') inside the try; the except clause catches it and raises through
\* _error again, with the first error nested
parse_no_match(t) ==
    /\ pc[t] = "for"
    /\ ruleidx[t] > Len(tests[t])
    /\ LET e == _error(position[t], state, tokens[t], "No match found", NoExc)
       IN  ret' = [ret EXCEPT ![t] =
                      Raise(_error(position[t], state, tokens[t], unicode(e), <<e>>))]
    /\ pc' = [pc EXCEPT ![t] = "done"]
    /\ UNCHANGED <<direct, engine, ncalls, op, tokens, position, tests, ruleidx, entry, trace, steps>>

\* the call has returned or raised: the caller goes on and the call's
\* locals are gone
parse_exit(t) ==
    /\ pc[t] = "done"
    /\ pc' = [pc EXCEPT ![t] = "idle"]
    /\ tokens' = [tokens EXCEPT ![t] = << >>]
    /\ position' = [position EXCEPT ![t] = 0]
    /\ tests' = [tests EXCEPT ![t] = << >>]
    /\ ruleidx' = [ruleidx EXCEPT ![t] = 0]
    /\ ret' = [ret EXCEPT ![t] = Running]
    /\ entry' = [entry EXCEPT ![t] = NoEntry]
    /\ trace' = [trace EXCEPT ![t] = << >>]
    /\ steps' = [steps EXCEPT ![t] = 0]
    /\ UNCHANGED <<direct, engine, ncalls, op>>

\* one caller: a parse call is made only when no call is in progress
Call ==
    /\ Quiet
    /\ \E toks \in Inputs(given.cls), st \in {None, "goal", "alt"}, kw \in KwArgs :
         parse(MainThread, toks, st, kw)

Next ==
    \/ __init__
    \/ reset
    \/ Call
    \/ parse_while(MainThread)
    \/ parse_rule(MainThread)
    \/ parse_no_match(MainThread)
    \/ parse_exit(MainThread)

Spec == Init /\ [][Next]_vars

\* ---------------------------------------- two callers on one engine instance
\* the grammars the two callers share
ThreadGrammars ==
    { ("goal" :> <<Dict("a" :> <<"record", "alt">> @@ "b" :> <<"nop", "goal">>),
                   Tuple(match_all, "record", "nowhere")>>)
        @@ ("alt" :> <<Tuple(Str(<<"b">>), "record", "alt"), rule_end>>),
      ("goal" :> <<Dict("a" :> <<"record", "alt">> @@ "b" :> <<"nop", "goal">>),
                   Tuple(match_all, "record", "nowhere")>>)
        @@ ("alt" :> <<Tuple(match_any, "record", "goal")>>) }
ThreadConfigs ==
    {c \in Configs : c.cls = "Parser" /\ c.kwargs = {} /\ c.start_state = Omitted
                        /\ c.spec \in ThreadGrammars}
ThreadInputs == UNION {[1..n -> {"a", "b"}] : n \in 0..MaxLen}

\* each thread makes one call, at any moment, whatever the other thread is
\* doing: nothing in Parser.parse synchronises the callers
CallBy(t) ==
    \E toks \in ThreadInputs : parse(t, toks, None, {})

InitThreads ==
    /\ given \in ThreadConfigs
    /\ called = << >>
    /\ result = << >>
    /\ Unconstructed
NextThreads ==
    \/ __init__
    \/ \E t \in Threads : CallBy(t)
    \/ \E t \in Threads : parse_while(t)
    \/ \E t \in Threads : parse_rule(t)
    \/ \E t \in Threads : parse_no_match(t)
SpecThreads == InitThreads /\ [][NextThreads]_vars

\* --------------------------------------------- string match specifications
\* the strings given as match specifications
Literals == {<<"a">>, <<"b">>, <<"a", "b">>, <<"b", "a">>}
\* inputs whose elements are characters or whole strings of two characters
ElementInputs == UNION {[1..n -> {"a", "b", "ab", "ba"}] : n \in 0..MaxLen}

\* the caller compiles the string it holds as a match specification and
\* calls the compiled matcher on the input it holds
str_apply ==
    /\ called # << >>
    /\ result' = <<match_fn_call(_compile_match(Str(called[1].tok)).value, called[1].tokens)>>
    /\ UNCHANGED <<called, engine, ncalls, op, locals>>

InitStr ==
    /\ given \in {c \in Configs : c.cls = "TokenLexer"}
    /\ called \in {<<[tok |-> tok, tokens |-> toks]>> : tok \in Literals, toks \in ElementInputs}
    /\ result = << >>
    /\ Unconstructed
SpecStr == InitStr /\ [][str_apply]_vars

\* ------------------------------------------- grammars whose rules consume
\* every rule of the grammar, as compiled, consumes at least one element
\* whenever it matches the non-empty remaining input the loop calls it with
EveryRuleConsumes(g) ==
    /\ \A s \in DOMAIN g : compile_tests(g[s]).exc = NoExc
    /\ \A s \in DOMAIN g : \A i \in 1..Len(g[s]) : \A toks \in Inputs("Parser") \ {<< >>} :
         LET r == test_fn(compile_tests(g[s]).value[i], toks)
         IN  (r.exc = NoExc /\ r.result.success) => r.result.advance >= 1
\* the engines built on such grammars, with rule lists short enough for a
\* call to be followed to its end
ConsumingConfigs ==
    {c \in Configs :
        /\ c.cls = "Parser" /\ c.kwargs = {}
        /\ EveryRuleConsumes(c.spec)
        /\ \A s \in DOMAIN c.spec : Len(c.spec[s]) * MaxLen <= MaxSteps}

InitConsuming ==
    /\ given \in ConsumingConfigs
    /\ called = << >>
    /\ result = << >>
    /\ Unconstructed
\* one call on the constructed engine, passing tokens and possibly a state
CallConsuming ==
    /\ Quiet
    /\ \E toks \in Inputs("Parser"), st \in {None, "goal", "alt"} :
         parse(MainThread, toks, st, {})
NextConsuming ==
    \/ __init__
    \/ CallConsuming
    \/ parse_while(MainThread)
    \/ parse_rule(MainThread)
    \/ parse_no_match(MainThread)
\* a call that has begun runs on: the loop has no point at which it waits
SpecConsuming ==
    /\ InitConsuming
    /\ [][NextConsuming]_vars
    /\ WF_vars(parse_while(MainThread) \/ parse_rule(MainThread) \/ parse_no_match(MainThread))

\* ------------------------------------------------- functions called directly
\* a Python sequence with its type: 'ab', ['a', 'b'] and ('a', 'b') hold the
\* same elements and are not equal
PyKinds == {"str", "list", "tuple"}
PySeq(kind, elems) == [kind |-> kind, elems |-> elems]
PySeqs == {PySeq(k, e) : k \in PyKinds, e \in UNION {[1..n -> {"a", "b"}] : n \in 0..MaxLen}}
PyLen(s) == Len(s.elems)
\* sequence[:n]
PySlice(s, n) == PySeq(s.kind, Prefix(s.elems, n))
\* what a function returning a bare bool gives
PyBool(b) == [exc |-> NoExc, bool |-> b]

\* a match function: the module it is from, its name and the argument of its
\* factory (the empty tuple when it has none)
Prim(module, fn, arg) == [module |-> module, fn |-> fn, arg |-> arg]

\* the match functions of oxeye/match.py applied to a sequence
oxeye_match(m, sequence) ==
    CASE m.fn = "match_any" ->
           IF PyLen(sequence) = 0 THEN failed_match
           ELSE passed_match(1, <<sequence.elems[1]>>)
      [] m.fn = "match_peek" ->
           IF PyLen(sequence) = 0 THEN failed_match
           ELSE passed_match(0, <<sequence.elems[1]>>)
      [] m.fn = "match_set" ->
           IF PyLen(sequence) = 0 THEN failed_match
           ELSE IF InSeq(sequence.elems[1], m.arg.elems)
                THEN passed_match(1, <<sequence.elems[1]>>)
                ELSE failed_match
      [] m.fn = "match_all" ->
           IF PyLen(sequence) = 0 THEN failed_match
           ELSE passed_match(PyLen(sequence), <<sequence>>)
      [] m.fn = "match_head" ->
           IF PyLen(sequence) = 0 THEN failed_match
           ELSE IF sequence.elems[1] = m.arg.elems[1]
                THEN passed_match(1, <<sequence.elems[1]>>)
                ELSE failed_match
      [] m.fn = "match_seq" ->
           IF PyLen(sequence) < PyLen(m.arg) THEN failed_match
           ELSE IF PySlice(sequence, PyLen(m.arg)) = m.arg
                THEN passed_match(PyLen(m.arg), <<PySlice(sequence, PyLen(m.arg))>>)
                ELSE failed_match
      [] m.fn = "match_end" -> PyBool(PyLen(sequence) = 0)

\* the match functions of oxeye/parser.py applied to a sequence
parser_match(m, sequence) ==
    CASE m.fn = "match_str" ->
           IF PySlice(sequence, PyLen(m.arg)) = m.arg
           THEN passed_match(PyLen(m.arg), <<m.arg>>)
           ELSE failed_match
      [] m.fn = "match_multi" ->
           IF PySlice(sequence, PyLen(m.arg)) = m.arg
           THEN passed_match(PyLen(m.arg), <<PySlice(sequence, PyLen(m.arg))>>)
           ELSE failed_match
      [] OTHER -> match_call(Fn(m.fn, m.arg.elems), sequence.elems)

\* the match functions a caller may build: match_multi(*values) always holds
\* a tuple, match_head(value) one element
MatchFns ==
    {Prim(mod, fn, PySeq("tuple", << >>)) :
        mod \in {"parser", "match"}, fn \in {"match_any", "match_peek", "match_all"}}
    \cup {Prim("match", "match_end", PySeq("tuple", << >>))}
    \cup {Prim("parser", fn, v) : fn \in {"match_set", "match_str"}, v \in PySeqs}
    \cup {Prim("parser", "match_multi", v) : v \in {w \in PySeqs : w.kind = "tuple"}}
    \cup {Prim("match", fn, v) : fn \in {"match_set", "match_seq"}, v \in PySeqs}
    \cup {Prim("match", "match_head", PySeq("str", <<c>>)) : c \in {"a", "b"}}

\* the caller applies the match function it holds to the sequence it holds
match_apply ==
    /\ called # << >>
    /\ result' = <<IF called[1].fn.module = "match"
                   THEN oxeye_match(called[1].fn, called[1].sequence)
                   ELSE parser_match(called[1].fn, called[1].sequence)>>
    /\ UNCHANGED <<called, engine, ncalls, op, locals>>

\* a caller holds a match function and a sequence; no engine is constructed,
\* match functions are called on their own
InitMatch ==
    /\ given \in {c \in Configs : c.cls = "TokenLexer"}
    /\ called \in {<<[fn |-> m, sequence |-> sequence]>> :
                      m \in MatchFns, sequence \in PySeqs}
    /\ result = << >>
    /\ Unconstructed
SpecMatch == InitMatch /\ [][match_apply]_vars

\* the rule descriptions a caller may compile and call on its own
RuleDescs ==
    {Tuple(m, p, st) :
        m \in {Str(<<"a">>), match_any, match_peek, match_all,
               match_str(<<"a", "b">>), match_set(<<"a", "b">>)},
        p \in {"nop", "record", "throw_fn"},
        st \in {"goal", "alt"}}
    \cup {Dict("a" :> <<p, st>> @@ "b" :> <<"nop", "goal">>) :
             p \in {"nop", "record", "throw_fn"}, st \in {"goal", "alt"}}
    \cup {rule_fail(message) : message \in {"some message", "failure"}}
    \cup {rule_branch(tok, "alt", "goal") : tok \in {"a", "b"}}

\* the caller compiles the rule description it holds and calls the compiled
\* rule on the tokens it holds; a description that does not compile leaves
\* the caller with the CompileError
rule_apply ==
    /\ called # << >>
    /\ LET c == _compile_rule(called[1].rule)
       IN  result' = <<IF c.exc # NoExc THEN RuleCall(c.exc, failed_rule, << >>)
                       ELSE test_fn(c.value, called[1].tokens)>>
    /\ UNCHANGED <<called, engine, ncalls, op, locals>>

InitRule ==
    /\ given \in {c \in Configs : c.cls = "TokenLexer"}
    /\ called \in {<<[rule |-> r, tokens |-> toks]>> :
                      r \in RuleDescs, toks \in Inputs("Parser")}
    /\ result = << >>
    /\ Unconstructed
SpecRule == InitRule /\ [][rule_apply]_vars

\* ------------------------------------------------------------ Token objects
\* the tokens and the strings a caller may compare, hash and use as keys
TokenNames == {"foo", "bar"}
Tokens ==
    {Token(n, v, l, c) : n \in TokenNames, v \in {None, "x"},
                         l \in 0..MaxLen, c \in 0..MaxLen}
Operands == Tokens \cup {PyStr(n) : n \in TokenNames \cup {"x"}}
\* the caller compares the two operands it holds, hashes them and looks the
\* first up in a mapping keyed by the second
token_apply ==
    /\ called # << >>
    /\ result' = <<[eq |-> PyEq(called[1].a, called[1].b),
                    hash_a |-> PyHash(called[1].a),
                    hash_b |-> PyHash(called[1].b),
                    item |-> PyGetItem(called[1].b, called[1].a)]>>
    /\ UNCHANGED <<called, engine, ncalls, op, locals>>

InitToken ==
    /\ given \in {c \in Configs : c.cls = "TokenLexer"}
    /\ called \in {<<[a |-> a, b |-> b]>> : a \in Operands, b \in Operands}
    /\ result = << >>
    /\ Unconstructed
SpecToken == InitToken /\ [][token_apply]_vars

\* the token sequences a token-based parser may be given
SomeTokens == {Token("foo", "x", 1, 2), Token("bar", None, 1, 1), Token("foo", None, 2, 1)}
TokenInputs == UNION {[1..n -> SomeTokens] : n \in 0..MaxLen}

\* the caller has a TokenParser (of oxeye/token.py or of oxeye/parser.py)
\* compile the triple (tag, action, 'goal') and calls the compiled rule on
\* the tokens it holds
tag_apply ==
    /\ called # << >>
    /\ result' =
         <<tuple_impl([shape |-> "tuple_impl",
                       match_fn |-> _compile_match_token(called[1].module, called[1].tag),
                       predicate_fn |-> called[1].pred,
                       next_state |-> "goal"],
                      called[1].tokens)>>
    /\ UNCHANGED <<called, engine, ncalls, op, locals>>

InitTag ==
    /\ given \in {c \in Configs : c.cls = "TokenLexer"}
    /\ called \in {<<[module |-> m, tag |-> Token(n, None, 0, 0), pred |-> p, tokens |-> toks]>> :
                      m \in {"oxeye.token", "oxeye.parser"}, n \in TokenNames,
                      p \in {"nop", "record", "throw_fn"}, toks \in TokenInputs}
    /\ result = << >>
    /\ Unconstructed
SpecTag == InitTag /\ [][tag_apply]_vars

\* TokenParser._error(position, state, tokens, msg, nested) of
\* oxeye/parser.py: tok = tokens[position], then ParseError with the token's
\* line and column put before the message
TokenParser_error(pos, st, toks, msg, nested) ==
    IF pos >= Len(toks) THEN Raise(IndexError)
    ELSE LET tok == toks[pos + 1]
         IN  Raise(ParseError(pos, st, toks,
                              "(" \o ToString(tok.line) \o ", " \o ToString(tok.column)
                                  \o ") " \o msg,
                              nested))

\* a token-based parser reports a failure at a position of the tokens it was
\* given, the end of the sequence included
token_error ==
    /\ called # << >>
    /\ result' = <<TokenParser_error(called[1].position, called[1].state,
                                      called[1].tokens, called[1].msg, NoExc)>>
    /\ UNCHANGED <<called, engine, ncalls, op, locals>>

InitTokErr ==
    /\ given \in {c \in Configs : c.cls = "TokenLexer"}
    /\ called \in {<<[tokens |-> toks, position |-> pos, state |-> st, msg |-> msg]>> :
                      toks \in TokenInputs, pos \in 0..MaxLen, st \in {"goal", "alt"},
                      msg \in {"No match found", "failure"}}
    /\ called[1].position <= Len(called[1].tokens)
    /\ result = << >>
    /\ Unconstructed
SpecTokErr == InitTokErr /\ [][token_error]_vars

\* ----------------------------------------------------------- oxeye.mini
\* the regular expressions in use: a literal, 'a*' and '.'
Lit(v) == [kind |-> "lit", value |-> v]
Star(ch) == [kind |-> "star", value |-> <<ch>>]
Dot == [kind |-> "dot", value |-> << >>]
\* the length of the longest run of ch at the head of s
RECURSIVE RunOf(_, _)
RunOf(ch, s) == IF s # << >> /\ s[1] = ch THEN 1 + RunOf(ch, Tail(s)) ELSE 0
\* re.match(rex, s): whether the pattern matches at the head of s, and
\* result.end()
re_match(rex, s) ==
    CASE rex.kind = "lit" ->
           IF Prefix(s, Len(rex.value)) = rex.value
           THEN [matched |-> TRUE, end |-> Len(rex.value)]
           ELSE [matched |-> FALSE, end |-> 0]
      [] rex.kind = "star" -> [matched |-> TRUE, end |-> RunOf(rex.value[1], s)]
      [] rex.kind = "dot" ->
           IF s # << >> /\ s[1] # "\n" THEN [matched |-> TRUE, end |-> 1]
           ELSE [matched |-> FALSE, end |-> 0]

\* the rules of a state that match at text[pos:]
MatchingRules(rules, text, pos) ==
    {i \in 1..Len(rules) : re_match(rules[i][1], Slice(text, pos)).matched}
\* a point of mini.parse: the state, the position, the functions called so
\* far and the loop heads passed
MiniPoint(st, pos, invoked, visited) ==
    [state |-> st, pos |-> pos, invoked |-> invoked, visited |-> visited]

\* a loop that steps over an element no rule matches
RECURSIVE mini_parse_skips(_, _, _, _)
mini_parse_skips(grammar, text, c, fuel) ==
    LET here == [c EXCEPT !.visited = Append(c.visited, <<c.state, c.pos>>)]
        done(r) == [ret |-> r, invoked |-> here.invoked, visited |-> here.visited]
    IN  IF ~(c.pos < Len(text)) THEN done(Return(<<c.state, c.pos>>))
        ELSE IF c.state \notin DOMAIN grammar THEN done(Raise(KeyError(c.state)))
        ELSE LET rules == grammar[c.state]
                 hits == MatchingRules(rules, text, c.pos)
             IN  IF fuel = 0 THEN done(Running)
                 ELSE IF hits = {}
                 THEN mini_parse_skips(grammar, text, [here EXCEPT !.pos = c.pos + 1], fuel - 1)
                 ELSE LET i == CHOOSE i \in hits : \A j \in hits : i <= j
                          m == re_match(rules[i][1], Slice(text, c.pos))
                          inv == Append(here.invoked, [pred |-> rules[i][2], pos |-> c.pos])
                      IN  IF pred_call(rules[i][2]) # NoExc
                          THEN [ret |-> Raise(pred_call(rules[i][2])[1]),
                                invoked |-> inv, visited |-> here.visited]
                          ELSE mini_parse_skips(grammar, text,
                                   MiniPoint(rules[i][3], c.pos + m.end, inv, here.visited),
                                   fuel - 1)

\* parse(spec, text, state='goal', pos=0) from the loop head at the point c:
\* the value returned or the exception raised within fuel passes of the loop
RECURSIVE mini_parse(_, _, _, _)
mini_parse(grammar, text, c, fuel) ==
    LET here == [c EXCEPT !.visited = Append(c.visited, <<c.state, c.pos>>)]
        done(r) == [ret |-> r, invoked |-> here.invoked, visited |-> here.visited]
    IN  IF ~(c.pos < Len(text)) THEN done(Return(<<c.state, c.pos>>))
        ELSE IF c.state \notin DOMAIN grammar THEN done(Raise(KeyError(c.state)))
        ELSE LET rules == grammar[c.state]
                 hits == MatchingRules(rules, text, c.pos)
             IN  IF hits = {} THEN done(Return(<<c.state, c.pos>>))
                 ELSE IF fuel = 0 THEN done(Running)
                 ELSE LET i == CHOOSE i \in hits : \A j \in hits : i <= j
                          m == re_match(rules[i][1], Slice(text, c.pos))
                          inv == Append(here.invoked, [pred |-> rules[i][2], pos |-> c.pos])
                      IN  IF pred_call(rules[i][2]) # NoExc
                          THEN [ret |-> Raise(pred_call(rules[i][2])[1]),
                                invoked |-> inv, visited |-> here.visited]
                          ELSE mini_parse(grammar, text,
                                   MiniPoint(rules[i][3], c.pos + m.end, inv, here.visited),
                                   fuel - 1)

\* the specs given to mini.parse: rule lists of (regular expression,
\* function, next state)
MiniGrammars ==
    {("goal" :> g) @@ ("alt" :> a) :
        g \in {<<(<<Lit(<<"a">>), "record", "goal">>), <<Lit(<<"b">>), "nop", "alt">>>>,
               <<(<<Lit(<<"a", "b">>), "record", "alt">>), <<Dot, "nop", "goal">>>>,
               <<(<<Star("a"), "record", "alt">>)>>,
               <<(<<Lit(<<"a">>), "throw_fn", "goal">>), <<Lit(<<"b">>), "nop", "end">>>>},
        a \in {<<(<<Lit(<<"b">>), "record", "goal">>)>>,
               <<(<<Star("b"), "nop", "alt">>)>>,
               << >>}}
MiniTexts == UNION {[1..n -> {"a", "b", "\n"}] : n \in 0..MaxLen}

\* the caller calls mini.parse with the spec, text, state and pos it holds
mini_apply ==
    /\ called # << >>
    /\ result' = <<mini_parse(called[1].spec, called[1].text,
                              MiniPoint(called[1].state, called[1].pos, << >>, << >>),
                              MaxSteps)>>
    /\ UNCHANGED <<called, engine, ncalls, op, locals>>

InitMini ==
    /\ given \in {c \in Configs : c.cls = "TokenLexer"}
    /\ called \in {<<[spec |-> g, text |-> text, state |-> st, pos |-> pos]>> :
                      g \in MiniGrammars, text \in MiniTexts, st \in {"goal", "alt"},
                      pos \in 0..MaxLen}
    /\ called[1].pos <= Len(called[1].text)
    /\ result = << >>
    /\ Unconstructed
SpecMini == InitMini /\ [][mini_apply]_vars

\* ------------------------------------------------------------------ status
\* the element at the cursor
head(t) == IF position[t] < Len(tokens[t]) THEN tokens[t][position[t] + 1] ELSE None

\* Parser.status: the cursor position, the element at the cursor, the
\* current state and the index (from 0) of the rule last attempted in the
\* current state's list, which is the length of the list once every rule
\* has been passed over
Parser_status(t) ==
    [pos |-> position[t], head |-> head(t), state |-> state,
     rule |-> IF ruleidx[t] = 0 THEN 0 ELSE ruleidx[t] - 1]

\* TokenLexer.status: the base status with the lexer's line and column
TokenLexer_status(t) ==
    [k \in DOMAIN Parser_status(t) \cup {"line", "column"} |->
        CASE k = "line" -> _line
          [] k = "column" -> _column
          [] OTHER -> Parser_status(t)[k]]

\* the status property of the engine's class
status(t) == IF given.cls = "TokenLexer" THEN TokenLexer_status(t) ELSE Parser_status(t)

\* ==================================================================== claims
\* the remaining input of a call, tokens[position:]
Rest(t) == Slice(tokens[t], position[t])

\* the rule neither matched nor raised
JustFailed(r) == r.exc = NoExc /\ ~r.result.success

\* the state has a rule list and none of its rules matches the input
NoRuleMatches(table, st, rest) ==
    /\ st \in DOMAIN table
    /\ \A i \in 1..Len(table[st]) : JustFailed(test_fn(table[st][i], rest))

\* the call ended because no rule of the current state matched
EndedNoMatch(t) ==
    /\ pc[t] = "done"
    /\ position[t] < Len(tokens[t])
    /\ NoRuleMatches(spec, state, Rest(t))

\* C1: for every grammar and every input the grammar's rules fully accept,
\* parse returns true and the cursor equals len(s) on return.
C1_AcceptedReturnsTrue ==
    \A t \in Threads :
        (pc[t] = "done" /\ ret[t].kind = "return")
            => (ret[t].value = "True" /\ position[t] = Len(tokens[t]))

\* C2: when no rule of state q matches the remaining input at position p,
\* parse raises a ParseError whose position is p and whose state is q, the
\* values at the failure and not those the call began with.
C2_NoMatchReportsFailurePoint ==
    \A t \in Threads :
        EndedNoMatch(t)
            => /\ ret[t].kind = "raise"
               /\ ret[t].exc[1].type = "ParseError"
               /\ ret[t].exc[1].position = position[t]
               /\ ret[t].exc[1].state = state
               /\ ret[t].exc[1].text = tokens[t]

C2_Witness ==
    \E t \in Threads :
        /\ EndedNoMatch(t)
        /\ ret[t].kind = "raise"
        /\ position[t] > entry[t].position
        /\ state # entry[t].state

\* the rule attempts the applications of a trace account for: each one
\* passed over the rules before the one applied
RECURSIVE AttemptsOf(_)
AttemptsOf(tr) == IF tr = << >> THEN 0 ELSE (Head(tr).rule + 1) + AttemptsOf(Tail(tr))

\* the rule attempts at the current position that found no match so far
PassedOver(t) ==
    IF pc[t] = "for" \/ (pc[t] = "done" /\ ruleidx[t] > Len(tests[t]))
    THEN ruleidx[t] - 1 ELSE 0

\* C3: at every position the rules of the current state are tried in
\* declaration order and the first that matches is applied; no rule after it
\* is attempted at that position and no later rule's action runs, even when
\* a later rule would match a longer prefix.
C3_FirstMatchWins ==
    \A t \in Threads :
        /\ \A k \in DOMAIN trace[t] :
             LET e == trace[t][k]
                 rest == Slice(tokens[t], e.pos)
             IN  /\ e.state \in DOMAIN spec
                 /\ e.rule + 1 <= Len(spec[e.state])
                 /\ \A j \in 1..e.rule : JustFailed(test_fn(spec[e.state][j], rest))
                 /\ ~JustFailed(test_fn(spec[e.state][e.rule + 1], rest))
                 /\ e.invoked = test_fn(spec[e.state][e.rule + 1], rest).invoked
        /\ steps[t] = AttemptsOf(trace[t]) + PassedOver(t)

\* a rule was applied although a later rule of the state matches more input
C3_Witness ==
    \E t \in Threads : \E k \in DOMAIN trace[t] :
        LET e == trace[t][k]
            rest == Slice(tokens[t], e.pos)
            r == test_fn(spec[e.state][e.rule + 1], rest)
        IN  /\ r.result.success
            /\ pc[t] = "done"
            /\ \E j \in (e.rule + 2)..Len(spec[e.state]) :
                 LET later == test_fn(spec[e.state][j], rest)
                 IN  later.result.success /\ later.result.advance > r.result.advance

\* some rule of the state accepts empty input
AcceptsEmpty(table, st) ==
    /\ st \in DOMAIN table
    /\ \E i \in 1..Len(table[st]) :
         LET r == test_fn(table[st][i], << >>) IN r.exc = NoExc /\ r.result.success

\* the call ran its loop until all input was consumed
ConsumedAll(t) ==
    /\ pc[t] = "done"
    /\ entry[t].kwargs = {}
    /\ tokens[t] # << >>
    /\ position[t] = Len(tokens[t])

\* C4: when all input has been consumed but the state the engine ends in
\* has no rule that accepts empty input, parse raises ParseError with the
\* message "No match found at end of input" instead of returning.
C4_ClosedGrammarRaises ==
    \A t \in Threads :
        (ConsumedAll(t) /\ state \in DOMAIN spec /\ ~AcceptsEmpty(spec, state))
            => /\ ret[t].kind = "raise"
               /\ ret[t].exc[1].type = "ParseError"
               /\ ret[t].exc[1].message = "No match found at end of input"

\* C5: a parse call made with exhaustive=False that reaches a position where
\* no rule of the current state matches returns false without raising and
\* leaves the engine's state at the stopping point.  Stated for a call that
\* is stuck where it begins.
C5_NonExhaustiveReturnsFalse ==
    \A t \in Threads :
        (/\ pc[t] = "done"
         /\ "exhaustive" \in entry[t].kwargs
         /\ entry[t].tokens # << >>
         /\ NoRuleMatches(spec, entry[t].state, entry[t].tokens))
            => /\ ret[t].kind = "return"
               /\ ret[t].value = "False"
               /\ state = entry[t].state

\* the places of a grammar's rules: <<state, index>>
RulePlaces(g) == UNION {{<<s, i>> : i \in 1..Len(g[s])} : s \in DOMAIN g}
\* a rule that is neither a triple, a mapping nor a callable
IsBadRule(rule) == rule.shape \notin {"tuple", "dict", "function"}
\* a triple whose match specification is neither a string nor a callable
HasBadMatch(rule) == rule.shape = "tuple" /\ rule.match.type \notin {"str", "function"}
BadRules(g) == {g[p[1]][p[2]] : p \in {q \in RulePlaces(g) : IsBadRule(g[q[1]][q[2]])}}
BadMatches(g) == {g[p[1]][p[2]].match : p \in {q \in RulePlaces(g) : HasBadMatch(g[q[1]][q[2]])}}
\* the error holds x in one of its attributes
Names(e, x) == e.subject = x \/ e.state = x
\* the rules and match specifications of state s that do not compile
BadIn(g, s) ==
    {g[s][i] : i \in {k \in 1..Len(g[s]) : IsBadRule(g[s][k])}}
    \cup {g[s][i].match : i \in {k \in 1..Len(g[s]) : HasBadMatch(g[s][k])}}

\* C6: constructing an engine with a triple whose match specification is of
\* an unrecognized type raises CompileError during construction, before any
\* parse call, and the error names the offending match specification.
C6_BadMatchNamed ==
    (BadMatches(given.spec) # {} /\ phase # "new")
        => /\ phase = "failed"
           /\ ncalls = 0
           /\ cerr # NoExc
           /\ cerr[1].type = "CompileError"
           /\ \E x \in BadMatches(given.spec) \cup BadRules(given.spec) : Names(cerr[1], x)

\* C7: constructing an engine with a rule that is neither a triple, a
\* mapping nor a callable raises CompileError, and the error that reaches the
\* caller identifies the offending rule and the state that owns it.
C7_BadRuleIdentified ==
    (BadRules(given.spec) # {} /\ phase # "new")
        => /\ phase = "failed"
           /\ cerr # NoExc
           /\ cerr[1].type = "CompileError"
           /\ \E s \in DOMAIN given.spec :
                /\ cerr[1].state = PyStr(s)
                /\ \E x \in BadIn(given.spec, s) : Names(cerr[1], x)

\* the call ended because the predicate of a matching rule raised
ActionRaised(t) ==
    /\ pc[t] = "done"
    /\ trace[t] # << >>
    /\ trace[t][Len(trace[t])].exc # NoExc
    /\ trace[t][Len(trace[t])].invoked # << >>

C11_StateIsStartAfterReset ==
    (phase = "ready" /\ op \in {"__init__", "reset"})
        => state = Arg(given.start_state, "goal")

C11_Witness ==
    /\ op = "reset"
    /\ ncalls > 0
    /\ given.start_state = Omitted
    /\ "alt" \in DOMAIN spec
    /\ state = "goal"

\* a freshly constructed engine for the configuration: the compiled table,
\* the start state and the lexer's empty token list and counters
FreshTable(cfg) == [s \in DOMAIN cfg.spec |-> compile_tests(cfg.spec[s]).value]
FreshLexer(cfg) ==
    IF cfg.cls = "TokenLexer" THEN [_tokens |-> << >>, _line |-> 1, _column |-> 1]
    ELSE [_tokens |-> << >>, _line |-> 0, _column |-> 0]

\* how a parse call goes from the point c (table, state, lexer, tokens,
\* position, index of the rule to try, 0 at the head of the while loop, and
\* the invocations made so far) within fuel rule attempts
RECURSIVE Run(_, _)
Run(c, fuel) ==
    LET end(r) == [ret |-> r, state |-> c.state, position |-> c.position,
                   invoked |-> c.invoked, lex |-> c.lex]
    IN  IF c.idx = 0
        THEN IF c.position >= Len(c.tokens) THEN end(Return(None))
             ELSE IF c.state \notin DOMAIN c.table
                  THEN end(Raise(_error(c.position, c.state, c.tokens,
                                        unicode(KeyError(c.state)), <<KeyError(c.state)>>)))
                  ELSE Run([c EXCEPT !.idx = 1], fuel)
        ELSE IF c.idx > Len(c.table[c.state])
             THEN LET e == _error(c.position, c.state, c.tokens, "No match found", NoExc)
                  IN  end(Raise(_error(c.position, c.state, c.tokens, unicode(e), <<e>>)))
             ELSE IF fuel = 0 THEN end(Running)
             ELSE LET r == test_fn(c.table[c.state][c.idx], Slice(c.tokens, c.position))
                      nxt == parse_step(c.position, c.state, c.idx, r)
                      d == [c EXCEPT !.lex = lexer_after(c.lex, r.invoked),
                                     !.invoked = c.invoked \o r.invoked]
                  IN  IF r.exc # NoExc
                      THEN [ret |-> IF IsException(r.exc[1])
                                    THEN Raise(_error(c.position, c.state, c.tokens,
                                                      unicode(r.exc[1]), r.exc))
                                    ELSE Raise(r.exc[1]),
                            state |-> c.state, position |-> c.position,
                            invoked |-> d.invoked, lex |-> d.lex]
                      ELSE Run([d EXCEPT !.position = nxt.position, !.state = nxt.state,
                                         !.idx = IF nxt.pc = "while" THEN 0 ELSE nxt.ruleidx],
                               fuel - 1)

\* the same call made on a freshly constructed engine
FreshRun(cfg, toks, state_override) ==
    Run([table |-> FreshTable(cfg),
         state |-> parse_begin(Arg(cfg.start_state, "goal"), state_override),
         lex |-> FreshLexer(cfg), tokens |-> toks, position |-> 0, idx |-> 0,
         invoked |-> << >>], MaxSteps)

\* ------------------------------------------------------------- RexParser
\* RexParser._compile_match_rex: a string match specification becomes
\* match_rex(tok); every other rule compiles as in Parser
RexParser_compile_rule(rule) ==
    IF rule.shape = "tuple" /\ rule.match.type = "str"
    THEN Compiled([shape |-> "tuple_impl", match_fn |-> Fn("match_rex", rule.match.value),
                   predicate_fn |-> rule.pred, next_state |-> rule.next])
    ELSE _compile_rule(rule)
RexTable(g) ==
    [s \in DOMAIN g |-> [i \in 1..Len(g[s]) |-> RexParser_compile_rule(g[s][i]).value]]

\* the grammars a RexParser is constructed with: the empty one, patterns
\* only, and patterns mixed with match functions and rule functions
RexGrammars ==
    {<< >>}
    \cup {("goal" :> rules) :
             rules \in {<<Tuple(Str(<<"a">>), "nop", "goal")>>,
                        <<Tuple(Str(<<"a">>), "record", "goal"), Tuple(Str(<<"b">>), "nop", "goal")>>,
                        <<Tuple(match_any, "record", "goal")>>,
                        <<Tuple(match_any, "nop", "goal"), Tuple(Str(<<"a">>), "nop", "goal")>>,
                        <<rule_end, Tuple(Str(<<"b">>), "nop", "goal")>>,
                        <<Dict("a" :> <<"nop", "goal">>), Tuple(Str(<<"b">>), "record", "goal")>>}}

\* RexParser(grammar).parse(tokens) for the grammar and the list the caller
\* holds
rex_parse ==
    /\ called # << >>
    /\ result' = <<Run([table |-> RexTable(called[1].grammar),
                        state |-> parse_begin("goal", None),
                        lex |-> [_tokens |-> << >>, _line |-> 0, _column |-> 0],
                        tokens |-> called[1].tokens, position |-> 0, idx |-> 0,
                        invoked |-> << >>], MaxSteps)>>
    /\ UNCHANGED <<called, engine, ncalls, op, locals>>

\* the sequences given are lists (of one-character strings), never strings
InitRex ==
    /\ given \in {c \in Configs : c.cls = "TokenLexer"}
    /\ called \in {<<[grammar |-> g, tokens |-> toks]>> :
                      g \in RexGrammars, toks \in Inputs("Parser")}
    /\ result = << >>
    /\ Unconstructed
SpecRex == InitRex /\ [][rex_parse]_vars

\* C24: the regex-flavored engine fails fast with an error whenever it is
\* asked to parse a non-string sequence, including an empty list and an engine
\* with an empty grammar; it never reports success or a mere match failure for
\* such input.
C24_RexFailsFastOnLists ==
    result # << >>
        => /\ result[1].ret.kind = "raise"
           /\ result[1].invoked = << >>
           /\ result[1].ret.exc[1].nested_exception # NoExc
           /\ result[1].ret.exc[1].nested_exception[1].type \in {"TypeError", "KeyError"}

\* ------------------------------------------------------------ TokenLexer
\* a lexer with a two-character lexeme before the one-character ones
LexemeRules == <<Tuple(match_str(<<"a", "a">>), "_token", "goal")>> \o LexerRules
\* the texts given to it
Texts == UNION {[1..n -> Alphabet("TokenLexer")] : n \in 0..(MaxLen + 2)}

\* a freshly constructed TokenLexer parses the text the caller holds; every
\* rule of the list may be tried at every position
lex_parse ==
    /\ called # << >>
    /\ result' = <<Run([table |-> ("goal" :> compile_tests(LexemeRules).value),
                        state |-> parse_begin("goal", None),
                        lex |-> [_tokens |-> << >>, _line |-> 1, _column |-> 1],
                        tokens |-> called[1].text, position |-> 0, idx |-> 0,
                        invoked |-> << >>],
                       Len(LexemeRules) * (MaxLen + 2))>>
    /\ UNCHANGED <<called, engine, ncalls, op, locals>>

InitLex ==
    /\ given \in {c \in Configs : c.cls = "TokenLexer"}
    /\ called \in {<<[text |-> text]>> : text \in Texts}
    /\ result = << >>
    /\ Unconstructed
SpecLex == InitLex /\ [][lex_parse]_vars

\* the offset in the text of the lexeme of the k-th invocation: the lengths
\* of the lexemes before it
RECURSIVE OffsetOf(_, _)
OffsetOf(invoked, k) ==
    IF k <= 1 THEN 0 ELSE OffsetOf(invoked, k - 1) + Len(invoked[k - 1].args[1])
\* the 1-based line and column of the character at offset p of the text
LineAt(text, p) == 1 + Cardinality({i \in 1..p : text[i] = "\n"})
ColumnAt(text, p) ==
    LET nl == {i \in 1..p : text[i] = "\n"}
        last == IF nl = {} THEN 0 ELSE CHOOSE i \in nl : \A j \in nl : j <= i
    IN  p - last + 1
\* the invocations of _token among the first k invocations
TokensBefore(invoked, k) == Cardinality({i \in 1..k : invoked[i].pred = "_token"})

\* C25: every token a freshly reset lexer appends carries the 1-based line
\* and column of the first character of its lexeme: a token action records the
\* current line and column and then advances the column by the lexeme length,
\* a whitespace action advances the column by the whitespace length, and a
\* newline action increments the line and resets the column to 1; lexing
\* " aa " therefore yields exactly one token located at the first a, not
\* at the leading space.
C25_TokenPositions ==
    result # << >>
        => LET text == called[1].text
               invoked == result[1].invoked
               toks == result[1].lex._tokens
           IN  /\ Len(toks) = TokensBefore(invoked, Len(invoked))
               /\ \A k \in 1..Len(invoked) :
                    LET p == OffsetOf(invoked, k)
                        lexeme == invoked[k].args[1]
                    IN  /\ Slice(Prefix(text, p + Len(lexeme)), p) = lexeme
                        /\ invoked[k].pred = "_token"
                             => toks[TokensBefore(invoked, k)]
                                   = Token(lexeme, None, LineAt(text, p), ColumnAt(text, p))
               /\ result[1].lex._line = LineAt(text, result[1].position)
               /\ result[1].lex._column = ColumnAt(text, result[1].position)
               /\ text = <<" ", "a", "a", " ">>
                    => toks = <<Token(<<"a", "a">>, None, 1, 2)>>
\* the text " aa " was lexed to the end and gave one token
C25_Witness ==
    /\ result # << >>
    /\ called[1].text = <<" ", "a", "a", " ">>
    /\ result[1].ret = Return(None)
    /\ result[1].position = 4
    /\ Len(result[1].lex._tokens) = 1

\* the action invocations of a call, in order
RECURSIVE Invocations(_)
Invocations(tr) == IF tr = << >> THEN << >> ELSE Head(tr).invoked \o Invocations(Tail(tr))

\* C12: the compiled rule table is unchanged by parse and reset, and a parse
\* of s made after reset has the same outcome (return value or error, final
\* state, final cursor, action invocations, and the lexer's tokens and
\* counters) as the same parse on a freshly constructed engine for the same
\* grammar, whatever earlier calls succeeded or failed.
C12_ParseAfterResetAsFresh ==
    /\ phase = "ready" => spec = FreshTable(given)
    /\ \A t \in Threads :
         (pc[t] = "done" /\ entry[t].kwargs = {} /\ entry[t].after = "reset")
            => LET f == FreshRun(given, entry[t].tokens, entry[t].state_override)
               IN  /\ ret[t] = f.ret
                   /\ state = f.state
                   /\ position[t] = f.position
                   /\ Invocations(trace[t]) = f.invoked
                   /\ [_tokens |-> _tokens, _line |-> _line, _column |-> _column] = f.lex

C12_Witness ==
    \E t \in Threads :
        /\ pc[t] = "done"
        /\ entry[t].kwargs = {}
        /\ entry[t].after = "reset"
        /\ ncalls = 2
        /\ given.cls = "TokenLexer"
        /\ Len(_tokens) >= 1
        /\ _line > 1

\* the call ended in the state st with all input consumed / with input left
EndedIn(t, st) == pc[t] = "done" /\ entry[t].kwargs = {} /\ state = st

\* C13: when a rule names the end state as its next state (here the custom
\* end_state 'end' given at construction and not declared in the grammar),
\* the engine behaves as if that state had one rule accepting only empty
\* input: parse succeeds if the transition consumed the last element and
\* raises ParseError if any input remains.
C13_EndStateAcceptsOnlyEmpty ==
    (given.kwargs = {"end_state"} /\ phase # "new")
        => /\ phase = "ready"
           /\ \A t \in Threads :
                EndedIn(t, "end")
                    => IF position[t] = Len(tokens[t])
                       THEN ret[t].kind = "return"
                       ELSE ret[t].kind = "raise" /\ ret[t].exc[1].type = "ParseError"

\* the direct call was of the function fn of the module
Called(module, fn) ==
    result # << >> /\ called[1].fn.module = module /\ called[1].fn.fn = fn
\* applying the function fn of the same module to the same sequence
Other(fn) ==
    LET m == [called[1].fn EXCEPT !.fn = fn]
    IN  IF m.module = "match" THEN oxeye_match(m, called[1].sequence)
        ELSE parser_match(m, called[1].sequence)
\* the call returned a match tuple that reports failure
Failed(r) == r.exc = NoExc /\ "success" \in DOMAIN r /\ ~r.success

\* C14: on every non-empty input match_any and match_peek both succeed and
\* capture the same data, the head element, match_any consuming 1 and
\* match_peek 0; on empty input both report failure without raising.
C14_AnyAndPeek ==
    \A module \in {"parser", "match"} :
        Called(module, "match_any")
            => LET any == result[1]
                   peek == Other("match_peek")
               IN  IF PyLen(called[1].sequence) = 0
                   THEN Failed(any) /\ Failed(peek)
                   ELSE /\ any.exc = NoExc /\ peek.exc = NoExc
                        /\ any.success /\ peek.success
                        /\ any.args = peek.args
                        /\ any.advance = 1 /\ peek.advance = 0

\* the names of the literal-subsequence match functions
Literal == {"match_seq", "match_str", "match_multi"}
\* the first len(v) elements of s are the elements of v
Elementwise(s, v) ==
    PyLen(s) >= PyLen(v) /\ Prefix(s.elems, PyLen(v)) = v.elems
\* the call returned a match tuple that reports success
Passed(r) == r.exc = NoExc /\ "success" \in DOMAIN r /\ r.success

\* C15: for every value sequence v and input s of the same type (and for
\* match_multi, whose values are always a tuple, every input),
\* match-literal-subsequence(v) succeeds with consumed = len(v) if and only if
\* the first len(v) elements of s equal v elementwise; when s is shorter than
\* v it reports failure without raising.
C15_LiteralSubsequence ==
    (/\ result # << >>
     /\ called[1].fn.fn \in Literal
     /\ \/ called[1].fn.arg.kind = called[1].sequence.kind
        \/ called[1].fn.fn = "match_multi")
        => LET v == called[1].fn.arg
               s == called[1].sequence
               r == result[1]
           IN  /\ r.exc = NoExc
               /\ (Passed(r) /\ r.advance = PyLen(v)) <=> Elementwise(s, v)
               /\ PyLen(s) < PyLen(v) => Failed(r)

\* the call returned a match tuple (success, advance, args, kwargs)
IsMatchTuple(r) ==
    r.exc = NoExc /\ {"success", "advance", "args", "kwargs"} \subseteq DOMAIN r

\* C16: every match primitive returns a MatchOutcome record (success,
\* consumed, positional captures, named captures), and whenever success is
\* false the consumed count is 0 and both capture containers are empty.
C16_MatchOutcome ==
    result # << >>
        => /\ IsMatchTuple(result[1])
           /\ ~result[1].success
                => /\ result[1].advance = 0
                   /\ result[1].args = << >>
                   /\ result[1].kwargs = << >>

\* C17: match-end applied to a remaining input succeeds if and only if that
\* input is empty, and consumes 0; applied to any non-empty sequence or string
\* it reports a failed match.
C17_MatchEnd ==
    Called("match", "match_end")
        => /\ IsMatchTuple(result[1])
           /\ result[1].success <=> PyLen(called[1].sequence) = 0
           /\ result[1].advance = 0
           /\ PyLen(called[1].sequence) > 0 => result[1] = failed_match

\* C18: a compiled mapping rule looks up the head element of the remaining
\* input: on a hit it invokes the mapped action with the raw head element and
\* reports success consuming 1 with the mapped next state; on a miss it
\* reports failure; on an empty remaining input it reports failure rather
\* than raising an index error.
C18_MappingRule ==
    (result # << >> /\ called[1].rule.shape = "dict")
        => LET table == called[1].rule.table
               toks == called[1].tokens
               r == result[1]
           IN  IF toks = << >>
               THEN r.exc = NoExc /\ r.result = failed_rule
               ELSE IF toks[1] \in DOMAIN table
               THEN /\ Len(r.invoked) = 1
                    /\ r.invoked[1].pred = table[toks[1]][1]
                    /\ r.invoked[1].args = <<(<<toks[1]>>)>>
                    /\ r.exc = NoExc
                         => r.result = passed_rule(1, table[toks[1]][2])
               ELSE r.exc = NoExc /\ r.result = failed_rule /\ r.invoked = << >>

\* what the matcher of the called triple rule gives on the called tokens
MatcherOutcome ==
    match_fn_call(_compile_match(called[1].rule.match).value, called[1].tokens)

\* C19: a compiled triple rule invokes its action exactly once, with the
\* matcher's captured positional and named values, if and only if its matcher
\* succeeds, and (the action returning) then reports (matched, the matcher's
\* consumed count, the declared next state); when the matcher fails the action
\* is not invoked and the rule reports (not matched, 0, none).
C19_TripleRule ==
    (result # << >> /\ called[1].rule.shape = "tuple")
        => LET m == MatcherOutcome
               r == result[1]
           IN  /\ Len(r.invoked) = (IF Passed(m) THEN 1 ELSE 0)
               /\ Passed(m)
                    => /\ r.invoked[1] = [pred |-> called[1].rule.pred,
                                          args |-> m.args, kwargs |-> m.kwargs]
                       /\ r.exc = pred_call(called[1].rule.pred)
                       /\ r.exc = NoExc
                            => r.result = passed_rule(m.advance, called[1].rule.next)
               /\ Failed(m)
                    => r.exc = NoExc /\ r.result = [success |-> FALSE, advance |-> 0,
                                                   next_state |-> None]
\* a triple rule whose matcher succeeded consuming two elements was called:
\* its action was invoked once and the rule reported (matched, 2, 'alt')
C19_Witness ==
    /\ result # << >>
    /\ called[1].rule.shape = "tuple"
    /\ Passed(MatcherOutcome)
    /\ MatcherOutcome.advance = 2
    /\ result[1].result = passed_rule(2, "alt")
    /\ Len(result[1].invoked) = 1

\* C20: compilation is idempotent: a callable supplied as a rule, or as the
\* match specification of a triple, is stored in the compiled table unchanged,
\* and compiling an already-compiled matcher or rule again gives it back.
C20_CompileIdempotent ==
    phase = "ready"
        => \A s \in DOMAIN given.spec : \A i \in 1..Len(given.spec[s]) :
              LET d == given.spec[s][i]
                  c == spec[s][i]
              IN  /\ d.shape = "function" => c = d
                  /\ (d.shape = "tuple" /\ d.match.type = "function")
                       => c.match_fn = d.match
                  /\ _compile_rule(c) = Compiled(c)
                  /\ c.shape = "tuple_impl"
                       => _compile_match(c.match_fn) = Compiled(c.match_fn)
\* an engine was constructed from a grammar holding a rule function and a
\* triple whose match specification is a match function other than match_any
C20_Witness ==
    /\ phase = "ready"
    /\ op = "__init__"
    /\ \E s \in DOMAIN given.spec : \E i, j \in 1..Len(given.spec[s]) :
          /\ given.spec[s][i].shape = "function"
          /\ spec[s][i] = given.spec[s][i]
          /\ given.spec[s][j].shape = "tuple"
          /\ given.spec[s][j].match.type = "function"
          /\ given.spec[s][j].match # match_any
          /\ spec[s][j].match_fn = given.spec[s][j].match

\* C21: token equality depends on kind only: for all tokens a and b, a == b
\* if and only if their kinds are equal, regardless of value, line and column;
\* a token also equals the bare string naming its kind and differs from any
\* string naming another kind.
C21_TokenEquality ==
    (result # << >> /\ ~(IsStr(called[1].a) /\ IsStr(called[1].b)))
        => LET a == called[1].a
               b == called[1].b
               kind(x) == IF IsStr(x) THEN x.str ELSE x.name
           IN  result[1].eq <=> kind(a) = kind(b)
\* two tokens of one kind with different value, line and column were compared
\* and found equal
C21_Witness ==
    /\ result # << >>
    /\ ~IsStr(called[1].a) /\ ~IsStr(called[1].b)
    /\ called[1].a.name = called[1].b.name
    /\ called[1].a.value # called[1].b.value
    /\ called[1].a.line # called[1].b.line
    /\ called[1].a.column # called[1].b.column
    /\ result[1].eq

\* C22: a token's hash equals the hash of its kind name alone, so any two
\* equal tokens hash equally and a mapping keyed by a token or by a kind-name
\* string is hit by every token of that kind whatever its value or position.
C22_TokenHash ==
    (result # << >> /\ ~IsStr(called[1].a))
        => LET a == called[1].a
               b == called[1].b
               kind(x) == IF IsStr(x) THEN x.str ELSE x.name
           IN  /\ result[1].hash_a = str_hash(a.name)
               /\ result[1].eq => result[1].hash_a = result[1].hash_b
               /\ kind(a) = kind(b)
                    => result[1].item.exc = NoExc /\ result[1].item.value = "hit"
\* a token was looked up in a mapping keyed by the string naming its kind,
\* its value being different from its name and its line and column not 0
C22_Witness ==
    /\ result # << >>
    /\ ~IsStr(called[1].a) /\ IsStr(called[1].b)
    /\ called[1].a.name = called[1].b.str
    /\ called[1].a.value # called[1].a.name
    /\ called[1].a.line > 0 /\ called[1].a.column > 0
    /\ result[1].item.value = "hit"

\* C23: in the token-based parser, a rule whose match specification is a
\* token-type tag succeeds iff the head element's kind equals the tag's kind,
\* consumes 1, and passes the head token's carried value, not the token
\* object itself, to the action.
C23_TagPassesValue ==
    (result # << >> /\ called[1].tokens # << >>)
        => LET head_tok == called[1].tokens[1]
               r == result[1]
           IN  IF head_tok.name = called[1].tag.name
               THEN /\ Len(r.invoked) = 1
                    /\ r.invoked[1].args = <<PyStr(head_tok.value)>>
                    /\ r.exc = NoExc => r.result = passed_rule(1, "goal")
               ELSE r.exc = NoExc /\ r.result = failed_rule /\ r.invoked = << >>

C27_RuleFailRaisesParseError ==
    (result # << >> /\ called[1].rule.shape = "function" /\ called[1].rule.fn = "rule_fail")
        => /\ result[1].exc # NoExc
           /\ result[1].exc[1].type = "ParseError"
           /\ result[1].exc[1].message = called[1].rule.message

\* C28: parse called with an explicit state S and position p begins matching
\* at index p of the sequence in state S: the call is accepted and runs the
\* loop from there, so a caller that caught a ParseError can resume the same
\* sequence from a chosen state and position.
C28_ResumeAtPosition ==
    \A t \in Threads :
        (/\ pc[t] = "done"
         /\ entry[t].kwargs = {"position"}
         /\ entry[t].state_override # None)
            => /\ ret[t].kind = "raise" => ret[t].exc[1].type = "ParseError"
               /\ entry[t].state = entry[t].state_override

\* C29: the mini parse function, started at a position of the text, never
\* raises for lack of a match: it returns the pair (state, pos) where pos
\* equals len(text) if every position was matched, and otherwise pos is the
\* first position at which no rule of the current state matches and state is
\* the state active there; in all cases start pos <= returned pos.
C29_MiniParseReturnsFailurePoint ==
    result # << >>
        => LET r == result[1]
               g == called[1].spec
               text == called[1].text
               visited == r.visited
               last == visited[Len(visited)]
               matched(v) == /\ v[2] < Len(text)
                             /\ v[1] \in DOMAIN g
                             /\ MatchingRules(g[v[1]], text, v[2]) # {}
           IN  /\ visited[1] = <<called[1].state, called[1].pos>>
               /\ \A k \in 1..(Len(visited) - 1) :
                    matched(visited[k]) /\ visited[k][2] <= visited[k + 1][2]
               /\ r.ret.kind = "raise"
                    => \/ r.ret.exc[1].type = "KeyError" /\ last[1] \notin DOMAIN g
                       \/ /\ r.invoked # << >>
                          /\ r.ret.exc = pred_call(r.invoked[Len(r.invoked)].pred)
                          /\ matched(last)
               /\ r.ret.kind = "return"
                    => /\ r.ret.value = last
                       /\ called[1].pos <= last[2] /\ last[2] <= Len(text)
                       /\ last[2] < Len(text) => ~matched(last)
                       /\ last[2] < Len(text) => last[1] \in DOMAIN g
\* a call matched the position it started at, called the rule's function
\* and returned the next position, inside the text, where no rule of the
\* state reached matches
C29_Witness ==
    /\ result # << >>
    /\ Len(result[1].invoked) = 1
    /\ result[1].ret.kind = "return"
    /\ Len(result[1].visited) = 2
    /\ result[1].ret.value[2] < Len(called[1].text)
    /\ result[1].ret.value[2] > called[1].pos

\* the call ended by raising out of its loop
RaisedInLoop(t) ==
    pc[t] = "done" /\ entry[t].kwargs = {} /\ ret[t].kind = "raise"
\* the cursor after the applications of a trace: past what the last one
\* consumed, or at the start when nothing was applied
CursorAfter(t, tr) ==
    IF tr = << >> THEN entry[t].position
    ELSE LET e == tr[Len(tr)]
         IN  e.pos + test_fn(spec[e.state][e.rule + 1], Slice(tokens[t], e.pos)).result.advance

\* C30: committed steps are never undone or repeated: when parse raises at
\* position p, the action of every rule matched at an earlier position has
\* been invoked exactly once, in input order, and the engine has not
\* re-attempted an earlier position nor re-tried, at position p, a rule that
\* already failed there.
C30_NoBacktracking ==
    \A t \in Threads :
        RaisedInLoop(t)
            => LET tr == trace[t]
                   applied == IF tr # << >> /\ tr[Len(tr)].exc # NoExc
                              THEN SubSeq(tr, 1, Len(tr) - 1) ELSE tr
               IN  /\ \A k \in DOMAIN applied :
                        /\ applied[k].exc = NoExc
                        /\ applied[k].pos = CursorAfter(t, SubSeq(applied, 1, k - 1))
                        /\ Len(applied[k].invoked) <= 1
                        /\ applied[k].invoked
                             = test_fn(spec[applied[k].state][applied[k].rule + 1],
                                       Slice(tokens[t], applied[k].pos)).invoked
                   /\ position[t] = CursorAfter(t, applied)
                   /\ \A k \in DOMAIN tr : tr[k].pos <= position[t]
                   /\ (given.cls = "TokenLexer" /\ entry[t].after \in {"__init__", "reset"})
                        => Len(_tokens)
                             = Cardinality({k \in DOMAIN tr :
                                   tr[k].invoked # << >> /\ tr[k].invoked[1].pred = "_token"})
                   /\ steps[t] = AttemptsOf(tr) + PassedOver(t)
\* a call applied rules at two positions, their actions were invoked, and
\* then raised because no rule matched further on
C30_Witness ==
    \E t \in Threads :
        /\ RaisedInLoop(t)
        /\ EndedNoMatch(t)
        /\ Len(trace[t]) >= 1
        /\ Len(Invocations(trace[t])) >= 1
        /\ position[t] > 0
        /\ PassedOver(t) >= 2

\* the rule applied at the k-th entry of a trace matched without consuming
\* anything and named the state it was applied in
ZeroCycleAt(t, k) ==
    LET e == trace[t][k]
    IN  /\ e.exc = NoExc
        /\ LET r == test_fn(spec[e.state][e.rule + 1], Slice(tokens[t], e.pos)).result
           IN  r.success /\ r.advance = 0 /\ r.next_state = e.state
\* the call in progress has applied such a rule
InZeroCycle(t) == pc[t] # "idle" /\ \E k \in DOMAIN trace[t] : ZeroCycleAt(t, k)

\* C31: the engine performs no cycle detection: once a rule has matched
\* while consuming 0 elements and naming its own state as next state, the
\* parse call on the non-empty input never terminates and never raises: it
\* never returns, holds no exception, its cursor stays before the end of the
\* input, its state stays declared and the rule list never runs out.
C31_ZeroCycleNeverEnds ==
    \A t \in Threads :
        InZeroCycle(t)
            => /\ pc[t] \in {"while", "for"}
               /\ ret[t] = Running
               /\ tokens[t] # << >>
               /\ position[t] < Len(tokens[t])
               /\ state \in DOMAIN spec
               /\ pc[t] = "for" => ruleidx[t] <= Len(tests[t])
               /\ \A k \in DOMAIN trace[t] :
                    ZeroCycleAt(t, k)
                        => \A j \in k..Len(trace[t]) :
                             /\ trace[t][j].pos = position[t]
                             /\ trace[t][j].state = state
                             /\ ZeroCycleAt(t, j)
\* a match-peek rule leading back to its own state has been applied three
\* times at the same position and the call is about to apply it again
C31_Witness ==
    \E t \in Threads :
        /\ InZeroCycle(t)
        /\ Len(trace[t]) >= 3
        /\ \A k \in 1..3 : ZeroCycleAt(t, k)
        /\ pc[t] = "while"
        /\ spec[state][trace[t][1].rule + 1].match_fn.fn = "match_peek"

\* both threads have made one call each, the only calls since construction,
\* and both calls have ended
BothDone == ncalls = 2 /\ \A t \in Threads : pc[t] = "done"
\* what the caller of t, the caller of u and the engine are left with
Outcome(t, u) == [first |-> ret[t], second |-> ret[u], state |-> state]
\* how a call with the arguments of t's goes when it begins in state st
AloneFrom(st, t) ==
    Run([table |-> spec, state |-> parse_begin(st, entry[t].state_override),
         lex |-> [_tokens |-> _tokens, _line |-> _line, _column |-> _column],
         tokens |-> entry[t].tokens, position |-> 0, idx |-> 0, invoked |-> << >>],
        MaxSteps)
\* the outcome is the one of t's call followed, after it ended, by u's
SequentialOrder(t, u) ==
    LET r1 == AloneFrom(start_state, t)
        r2 == AloneFrom(r1.state, u)
    IN  /\ r1.ret # Running
        /\ Outcome(t, u) = [first |-> r1.ret, second |-> r2.ret, state |-> r2.state]
Serial == \E t, u \in Threads : t # u /\ SequentialOrder(t, u)
\* neither call began while the other was in progress
Apart == \A t \in Threads : entry[t].during = {}
\* t's call began, with no explicit state, in a state that the other call
\* had written and was still working from
BeganInOthersState(t) ==
    /\ entry[t].during # {}
    /\ entry[t].state_override = None
    /\ entry[t].state # start_state

\* C32: two parse calls interleaved on the same engine instance can
\* interfere.  Calls of two threads that do not overlap leave their callers
\* and the engine with the outcome (results or errors, final state) of one of
\* the two sequential orders; an outcome of no sequential order arises only
\* from calls that overlapped, one call reading the state the other wrote.
C32_InterferenceNeedsOverlap ==
    (BothDone /\ Apart) => Serial
\* two overlapping calls have ended with an outcome that neither sequential
\* order produces, one of them having begun in a state the other had written
\* halfway through its input
C32_Witness ==
    /\ BothDone
    /\ ~Apart
    /\ ~Serial
    /\ \E t \in Threads : BeganInOthersState(t)

\* ---------------------------------------------------------- oxeye.linecol
\* the grammar of LineColTranslator.__init__: a newline calls next_line,
\* any other element next_col
LineColRules ==
    <<Tuple(Str(<<"\n">>), "next_line", "goal"), Tuple(match_any, "next_col", "goal")>>

\* a next_line that puts the column back to 1
RECURSIVE linecol_after_col_one(_, _)
linecol_after_col_one(lc, invoked) ==
    IF invoked = << >> THEN lc
    ELSE LET nxt == IF Head(invoked).pred = "next_line"
                    THEN [line |-> lc.line + 1, column |-> 1]
                    ELSE [lc EXCEPT !.column = lc.column + 1]
         IN  linecol_after_col_one(nxt, Tail(invoked))

\* self.line and self.column after the invocations of next_col (column += 1)
\* and next_line (column = 0, line += 1)
RECURSIVE linecol_after(_, _)
linecol_after(lc, invoked) ==
    IF invoked = << >> THEN lc
    ELSE LET nxt == IF Head(invoked).pred = "next_line"
                    THEN [line |-> lc.line + 1, column |-> 0]
                    ELSE [lc EXCEPT !.column = lc.column + 1]
         IN  linecol_after(nxt, Tail(invoked))

\* text[:position] for an integer position: a negative one counts from the
\* end, one past the end gives the whole text
PySliceTo(text, p) ==
    IF p < 0
    THEN Prefix(text, IF Len(text) + p < 0 THEN 0 ELSE Len(text) + p)
    ELSE Prefix(text, p)

\* an optional integer argument: None, or the integer given
NoInt == << >>
PyInt(n) == <<n>>

\* LineColTranslator.parse(text, position): line and column start at 1, the
\* engine parses text[:position], and (line, column) is returned; an error of
\* the engine leaves the call
LineColTranslator_parse(text, p) ==
    LET pos == IF p = NoInt THEN Len(text) ELSE p[1]
        r == Run([table |-> ("goal" :> compile_tests(LineColRules).value),
                  state |-> parse_begin("goal", None),
                  lex |-> [_tokens |-> << >>, _line |-> 0, _column |-> 0],
                  tokens |-> PySliceTo(text, pos), position |-> 0, idx |-> 0,
                  invoked |-> << >>],
                 Len(LineColRules) * (Len(text) + 1))
        lc == linecol_after([line |-> 1, column |-> 1], r.invoked)
    IN  IF r.ret.kind = "return" THEN Return(<<lc.line, lc.column>>) ELSE r.ret

\* pos_to_linecol(text, position=None)
pos_to_linecol(text, p) == LineColTranslator_parse(text, p)

\* the positions a caller passes: None, the positions of the text, and one
\* before the start and one past the end
LineColInputs ==
    {<<[text |-> text, position |-> pos]>> :
        text \in Texts, pos \in {NoInt} \cup {PyInt(n) : n \in -1..(MaxLen + 3)}}

linecol_apply ==
    /\ called # << >>
    /\ result' = <<pos_to_linecol(called[1].text, called[1].position)>>
    /\ UNCHANGED <<called, engine, ncalls, op, locals>>

InitLineCol ==
    /\ given \in {c \in Configs : c.cls = "TokenLexer"}
    /\ called \in {c \in LineColInputs :
                      c[1].position = NoInt \/ c[1].position[1] <= Len(c[1].text) + 1}
    /\ result = << >>
    /\ Unconstructed
SpecLineCol == InitLineCol /\ [][linecol_apply]_vars

\* the places of the newline characters in the first n elements of text
NewlinesIn(text, n) == {i \in 1..n : text[i] = "\n"}

\* C33: pos_to_linecol(text, p), for a position p of the text, returns
\* (line, column) with line = 1 + the number of newline characters in
\* text[:p]; column = p + 1 when text[:p] contains no newline, and otherwise
\* the number of characters after the last newline in text[:p]; p = None is
\* treated as len(text), and p = 0 gives (1, 1).
C33_LineColumn ==
    result # << >>
        => LET text == called[1].text
               p == IF called[1].position = NoInt THEN Len(text) ELSE called[1].position[1]
               nl == NewlinesIn(text, p)
               last == CHOOSE i \in nl : \A j \in nl : j <= i
           IN  (0 <= p /\ p <= Len(text))
                  => /\ result[1].kind = "return"
                     /\ result[1].value[1] = 1 + Cardinality(nl)
                     /\ nl = {} => result[1].value[2] = p + 1
                     /\ nl # {} => result[1].value[2] = p - last
                     /\ p = 0 => result[1].value = <<1, 1>>
                     /\ called[1].position = NoInt
                          => result[1] = pos_to_linecol(text, PyInt(Len(text)))
\* a position after a newline and two further characters: line 2, column 2
C33_Witness ==
    /\ result # << >>
    /\ called[1].text = <<"a", "\n", "a", "a">>
    /\ called[1].position = PyInt(4)
    /\ result[1] = Return(<<2, 2>>)

\* C34: rule_branch(tok, pass_state, fail_state) yields a rule that never
\* invokes an action and always succeeds: it consumes 1 and moves to
\* pass_state when the head element of the remaining input equals tok, and
\* otherwise (including on empty input) consumes 0 and moves to fail_state.
C34_RuleBranch ==
    (result # << >> /\ called[1].rule.shape = "None")
        => LET rule == called[1].rule
               toks == called[1].tokens
           IN  /\ result[1].exc = NoExc
               /\ result[1].invoked = << >>
               /\ result[1].result
                    = IF toks # << >> /\ toks[1] = rule.tok
                      THEN passed_rule(1, rule.pass_state)
                      ELSE passed_rule(0, rule.fail_state)

\* the successful rule applications of t's call so far
Successes(t) == Cardinality({k \in DOMAIN trace[t] : trace[t][k].exc = NoExc})
\* t's call is in its loop
InLoop(t) == pc[t] \in {"while", "for"}

\* C35: if every rule of the grammar consumes at least one element whenever
\* it matches, then parse on any finite sequence terminates, by returning or
\* raising, after at most len(sequence) successful rule applications.
C35_ConsumingParseTerminates ==
    /\ [](\A t \in Threads : pc[t] # "idle" => Successes(t) <= Len(entry[t].tokens))
    /\ \A t \in Threads :
         InLoop(t) ~> (pc[t] = "done" /\ ret[t].kind \in {"return", "raise"})
\* a call on a sequence of MaxLen elements returned after MaxLen successful
\* rule applications
C35_Witness ==
    \E t \in Threads :
        /\ pc[t] = "done"
        /\ ret[t].kind = "return"
        /\ Len(entry[t].tokens) = MaxLen
        /\ Successes(t) = MaxLen

\* C36: during parse the cursor never decreases, and for grammars built only
\* from the built-in match primitives and rule shapes each step consumes at
\* most the remaining length, so 0 <= cursor <= len(sequence) holds in every
\* reachable state and the loop exits normally only with
\* cursor == len(sequence).
C36_CursorInRange ==
    /\ [](\A t \in Threads :
            /\ 0 <= position[t] /\ position[t] <= Len(tokens[t])
            /\ (pc[t] = "done" /\ entry[t].kwargs = {} /\ ret[t].kind = "return")
                  => position[t] = Len(tokens[t]))
    /\ [][\A t \in Threads :
            (pc[t] # "idle" /\ pc'[t] # "idle")
                => /\ position'[t] >= position[t]
                   /\ position'[t] - position[t] <= Len(tokens[t]) - position[t]
                   /\ tokens'[t] = tokens[t]]_vars
\* a call has returned with the cursor at the end of the sequence after a
\* step that consumed all that remained, more than one element
C36_Witness ==
    \E t \in Threads :
        /\ pc[t] = "done"
        /\ ret[t].kind = "return"
        /\ position[t] = Len(tokens[t])
        /\ trace[t] # << >>
        /\ position[t] - trace[t][Len(trace[t])].pos >= 2

\* C37: a parse call given no explicit state begins in the engine's current
\* state, which is the state the previous parse call left behind (including
\* a terminal or error-time state), not the start state; only reset restores
\* the start state, while the cursor always restarts at the default position.
C37_ParseBeginsInCurrentState ==
    [][\A t \in Threads :
         /\ (pc[t] = "idle" /\ pc'[t] = "while")
               => /\ position'[t] = 0
                  /\ entry'[t].position = 0
                  /\ entry'[t].state_override = None
                        => (state' = state /\ entry'[t].state = state)
                  /\ entry'[t].state_override # None
                        => state' = entry'[t].state_override
         /\ (pc[t] = "done" /\ pc'[t] = "idle") => state' = state
         /\ (op' = "reset" /\ pc' = pc) => state' = start_state]_vars
\* after a call that left the engine in another state than the start state,
\* a call given no state has begun there, with the cursor at 0
C37_Witness ==
    \E t \in Threads :
        /\ pc[t] = "while"
        /\ trace[t] = << >>
        /\ entry[t].after = "parse"
        /\ entry[t].state_override = None
        /\ entry[t].state # start_state
        /\ state = entry[t].state
        /\ position[t] = 0

\* every element of the input is a single character
CharacterInput(toks) == \A i \in DOMAIN toks : toks[i] \in {"a", "b"}

\* C38: in the base engine a string match specification is compiled to a
\* single-element matcher: it succeeds iff the head element of the remaining
\* input equals the whole string, consumes exactly 1 and captures the string;
\* it never matches a multi-element prefix, so a multi-character literal
\* never matches character input.
C38_StringMatchesOneElement ==
    result # << >>
        => LET tok == called[1].tok
               toks == called[1].tokens
               r == result[1]
               matched == r.exc = NoExc /\ r.success
           IN  /\ matched <=> (toks # << >> /\ toks[1] = Whole(tok))
               /\ matched => (r.advance = 1 /\ r.args = <<tok>>)
               /\ toks # << >> => r.exc = NoExc
               /\ (Len(tok) >= 2 /\ CharacterInput(toks)) => ~matched
\* the matcher compiled from the literal ab has failed on the characters
\* a, b
C38_Witness ==
    /\ result # << >>
    /\ called[1].tok = <<"a", "b">>
    /\ called[1].tokens = <<"a", "b">>
    /\ result[1] = failed_match

\* C39: when parse fails because no rule matched, exactly one ParseError
\* reaches the caller, its message is "No match found" and it carries no
\* nested cause; a nested cause is present only when the failure originated
\* from an exception raised by action or predicate code.
C39_NoMatchErrorHasNoCause ==
    \A t \in Threads :
        /\ (EndedNoMatch(t) /\ entry[t].kwargs = {})
              => /\ ret[t].kind = "raise"
                 /\ ret[t].exc[1].type = "ParseError"
                 /\ ret[t].exc[1].message = "No match found"
                 /\ ret[t].exc[1].nested_exception = NoExc
        /\ (pc[t] = "done" /\ ret[t].kind = "raise" /\ ret[t].exc[1].type = "ParseError"
              /\ ret[t].exc[1].nested_exception # NoExc)
              => ActionRaised(t)

====
